---- MODULE Spec2Model ----
(***************************************************************************)
(* A model of the d-ary heap engine of orx-priority-queue                  *)
(* (src/src/dary/heap.rs), of its three position trackers                  *)
(* (src/src/positions/) and of the combined operations of                  *)
(* PriorityQueueDecKey (src/src/priority_queue_deckey.rs).                 *)
(*                                                                         *)
(* The tree is the Rust Vec<(N, K)>: a sequence of records [n, k] whose    *)
(* physical (0-based) index i is the (i+1)-th member of the sequence.     *)
(* The build modelled is the one with debug assertions enabled (the one    *)
(* the tests run): a panic stops the program, the state it leaves behind   *)
(* is kept in the variables and no operation follows it.  What a call     *)
(* returns is part of the value its operator yields ([h, ret]).            *)
(***************************************************************************)
EXTENDS Integers, Sequences, FiniteSets, Bags, TLC

\* ------------------------------------------------------------------ bounds
\* index_bound given to with_index_bound; identifiers are 0..IndexBound, so
\* that IndexBound itself is the identifier the indexed heap must reject.
IndexBound == 3
\* keys are 1..MaxKey
MaxKey == 3
\* pushes are not attempted on a heap that holds MaxLen pairs already
MaxLen == 5
\* with a clone at its side, neither heap is pushed to beyond CloneMaxLen
CloneMaxLen == 2
\* the mapped binary heap of SpecRemove holds up to RemoveLen elements
RemoveLen == 6
\* the index arithmetic is evaluated for the six specialised values of D,
\* for every other D up to MaxArithD and for logical indices up to MaxLogical
MaxArithD == 9
MaxLogical == 20

Nodes == 0..IndexBound
\* the plain heap never looks at its elements: two of them tell pairs apart
PlainNodes == 0..1
NodesOf(k) == IF k = "none" THEN PlainNodes ELSE Nodes
Keys == 1..MaxKey
\* branching factors: 2 has a sentinel prefix of one slot, 3 has none
DSet == {2, 3}
Kinds == {"none", "index", "map"}

\* what an uninitialised sentinel slot may hold
Garbage == {[n |-> 0, k |-> 1], [n |-> IndexBound, k |-> MaxKey]}

VARIABLES
  D,          \* const D: usize of Heap<N, K, P, D>
  kind,       \* P: "none" | "index" | "map"
  tree,       \* Heap::tree
  positions,  \* Heap::positions
  err,        \* "" or the message of the panic that ended the program
  assigned,   \* history: what the calls made so far and their results say
              \* of each element, the key last given to it or NONE
  pairs,      \* history: the bag of pairs <<element, key>> put in and not
              \* taken out again, by the calls made so far and their results
  twin,       \* NoTwin, or the heap that heap.clone() returned
  dj,         \* NoRun, or the locals of a running shortest_path
  ar,         \* NoArith, or the last evaluation of parent_of / left_child_of
  dr          \* NoDrain, or the count of a loop that pops until None

vars == <<D, kind, tree, positions, err, assigned, pairs, twin, dj, ar, dr>>

\* ------------------------------------------------------- key comparisons
\* K: PartialOrd. The keys are integers and one more value, NaN, for which
\* each of <, <=, > and >= is false whatever the other side (f64::NAN); it
\* is written as a number that is no key and no cost
NaN == -2
Comparable(a, b) == a # NaN /\ b # NaN
lt(a, b) == Comparable(a, b) /\ a < b
le(a, b) == Comparable(a, b) /\ a <= b
gt(a, b) == Comparable(a, b) /\ a > b
ge(a, b) == Comparable(a, b) /\ a >= b

\* ------------------------------------------- branching-factor arithmetic
Pow2(e) == IF e = 1 THEN 2 ELSE IF e = 2 THEN 4 ELSE IF e = 3 THEN 8
           ELSE IF e = 4 THEN 16 ELSE IF e = 5 THEN 32 ELSE 64
Shr(x, e) == x \div Pow2(e)
Shl(x, e) == x * Pow2(e)

offset(d) ==
  CASE d = 2 -> 1
    [] d = 4 -> 3
    [] d = 8 -> 7
    [] d = 16 -> 15
    [] d = 32 -> 31
    [] d = 64 -> 63
    [] OTHER -> 0

parent_of(d, child) ==
  CASE d = 2 -> Shr(child, 1)
    [] d = 4 -> Shr(child, 2) + 2
    [] d = 8 -> Shr(child, 3) + 6
    [] d = 16 -> Shr(child, 4) + 14
    [] d = 32 -> Shr(child, 5) + 30
    [] d = 64 -> Shr(child, 6) + 62
    [] OTHER -> (child - 1) \div d

\* `child - 1` of the last arm of parent_of is a usize subtraction: at
\* child = 0 it overflows, which panics where overflow is checked and
\* otherwise yields a parent far past the end of the tree, where the
\* caller's tree[parent] panics
parent_of_overflows(d, child) ==
  CASE d \in {2, 4, 8, 16, 32, 64} -> FALSE
    [] OTHER -> child < 1
Overflow == "attempt to subtract with overflow"

\* left_child_of by the general formula for every D
left_child_of_general(d, parent) == d * parent + 1

left_child_of(d, parent) ==
  CASE d = 2 -> Shl(parent, 1)
    [] d = 4 -> Shl(parent, 2) - 8
    [] d = 8 -> Shl(parent, 3) - 48
    [] d = 16 -> Shl(parent, 4) - 224
    [] d = 32 -> Shl(parent, 5) - 960
    [] d = 64 -> Shl(parent, 6) - 3968
    [] OTHER -> d * parent + 1

\* ----------------------------------------------------------- heap values
\* A heap value h is [d, kind, tree, positions, err]. Every step below is
\* skipped once h.err is set: the program has panicked.
NONE == -1

At(t, i) == t[i + 1]
Fail(h, msg) == [h EXCEPT !.err = msg]
SetSlot(h, i, slot) ==
  IF h.err # "" THEN h
  ELSE IF i >= Len(h.tree) THEN Fail(h, "index out of bounds")
  ELSE [h EXCEPT !.tree[i + 1] = slot]
truncate(h, n) ==
  IF h.err # "" \/ n >= Len(h.tree) THEN h
  ELSE [h EXCEPT !.tree = SubSeq(h.tree, 1, n)]

\* ------------------------------------------------------ position trackers
\* a position array with a cell for index_bound itself
with_index_bound_inclusive(index_bound) == [i \in 0..index_bound |-> NONE]

with_index_bound(index_bound) == [i \in 0..(index_bound - 1) |-> NONE]
\* HeapPositionsHasIndex::index_bound: the length of the position array
index_bound(h) == Cardinality(DOMAIN h.positions)
EmptyMap == [i \in {} |-> NONE]

\* the panic, if any, of reading positions[node.index()] / of a map lookup
P_oob(h, node) == h.kind = "index" /\ node \notin DOMAIN h.positions

P_contains(h, node) ==
  CASE h.kind = "index" -> h.positions[node] # NONE
    [] h.kind = "map" -> node \in DOMAIN h.positions
    [] OTHER -> FALSE

\* NONE stands for Option::None
P_position_of(h, node) ==
  CASE h.kind = "index" -> h.positions[node]
    [] h.kind = "map" ->
         IF node \in DOMAIN h.positions THEN h.positions[node] ELSE NONE
    [] OTHER -> NONE

\* clear that leaves the positions as they are
P_clear_keeps_positions(h) == h

P_clear(h) ==
  IF h.err # "" THEN h
  ELSE CASE h.kind = "index" ->
              [h EXCEPT !.positions = [i \in DOMAIN h.positions |-> NONE]]
         [] h.kind = "map" -> [h EXCEPT !.positions = EmptyMap]
         [] OTHER -> h

P_insert(h, node, position) ==
  IF h.err # "" THEN h
  ELSE CASE h.kind = "index" ->
              IF P_oob(h, node) THEN Fail(h, "index out of bounds")
              ELSE IF P_contains(h, node)
                THEN Fail(h, "re-inserting already added node")
              ELSE [h EXCEPT !.positions[node] = position]
         [] h.kind = "map" ->
              IF P_contains(h, node)
                THEN Fail(h, "re-inserting already added node")
              ELSE [h EXCEPT !.positions =
                      [x \in DOMAIN h.positions \cup {node} |->
                         IF x = node THEN position ELSE h.positions[x]]]
         [] OTHER -> h

P_remove(h, node) ==
  IF h.err # "" THEN h
  ELSE CASE h.kind = "index" ->
              IF P_oob(h, node) THEN Fail(h, "index out of bounds")
              ELSE IF ~P_contains(h, node)
                THEN Fail(h, "removing an absent node")
              ELSE [h EXCEPT !.positions[node] = NONE]
         [] h.kind = "map" ->
              IF ~P_contains(h, node)
                THEN Fail(h, "removing an absent node")
              ELSE [h EXCEPT !.positions =
                      [x \in DOMAIN h.positions \ {node} |-> h.positions[x]]]
         [] OTHER -> h

P_update_position_of(h, node, position) ==
  IF h.err # "" THEN h
  ELSE CASE h.kind = "index" ->
              IF P_oob(h, node) THEN Fail(h, "index out of bounds")
              ELSE IF ~P_contains(h, node)
                THEN Fail(h, "updating position of an absent node")
              ELSE [h EXCEPT !.positions[node] = position]
         [] h.kind = "map" ->
              IF ~P_contains(h, node) THEN Fail(h, "node must exist")
              ELSE [h EXCEPT !.positions[node] = position]
         [] OTHER -> h

\* ------------------------------------------------------------ heap engine
Heap_new(d, k, garbage) ==
  [d |-> d, kind |-> k,
   tree |-> [i \in 1..offset(d) |-> garbage],
   positions |-> CASE k = "index" -> with_index_bound(IndexBound)
                   [] k = "map" -> EmptyMap
                   [] OTHER -> <<>>,
   err |-> ""]

\* put_node without the tracker update of line 62 / 117
put_node_untracked(h, node, at) == SetSlot(h, at, node)

\* lines 62-63: write the carried node back
put_node(h, node, at) ==
  SetSlot(P_update_position_of(h, node.n, at), at, node)

\* the while loop of heapify_up without line 54: the parent is not copied
\* into the child's slot
RECURSIVE up_loop_parent_not_moved(_, _, _, _)
up_loop_parent_not_moved(h, node, child, parent) ==
  IF h.err # "" THEN h
  ELSE IF lt(node.k, At(h.tree, parent).k)
    THEN LET h1 == P_update_position_of(h, At(h.tree, parent).n, child)
         IN IF parent = offset(h.d) THEN put_node(h1, node, parent)
            ELSE up_loop_parent_not_moved(h1, node, parent,
                                          parent_of(h.d, parent))
  ELSE put_node(h, node, child)

\* the while loop of heapify_up that goes on also on an equal key
RECURSIVE up_loop_le(_, _, _, _)
up_loop_le(h, node, child, parent) ==
  IF h.err # "" THEN h
  ELSE IF le(node.k, At(h.tree, parent).k)
    THEN LET h1 == P_update_position_of(h, At(h.tree, parent).n, child)
             h2 == SetSlot(h1, child, At(h.tree, parent))
         IN IF parent = offset(h.d) THEN put_node(h2, node, parent)
            ELSE up_loop_le(h2, node, parent, parent_of(h.d, parent))
  ELSE put_node(h, node, child)

\* the while loop of heapify_up, lines 51-60
RECURSIVE up_loop(_, _, _, _)
up_loop(h, node, child, parent) ==
  IF h.err # "" THEN h
  ELSE IF lt(node.k, At(h.tree, parent).k)
    THEN LET h1 == P_update_position_of(h, At(h.tree, parent).n, child)
             h2 == SetSlot(h1, child, At(h.tree, parent))
         IN IF parent = offset(h.d) THEN put_node(h2, node, parent)
            ELSE IF parent_of_overflows(h.d, parent) THEN Fail(h2, Overflow)
            ELSE up_loop(h2, node, parent, parent_of(h.d, parent))
  ELSE put_node(h, node, child)

\* heapify_up that exchanges with the parent once and does not go on
heapify_up_one_level(h, starting_position) ==
  IF h.err # "" \/ starting_position = offset(h.d) THEN h
  ELSE LET parent == parent_of(h.d, starting_position)
       IN IF ge(At(h.tree, starting_position).k, At(h.tree, parent).k) THEN h
          ELSE LET h1 == P_update_position_of(h, At(h.tree, parent).n,
                                              starting_position)
                   h2 == SetSlot(h1, starting_position, At(h.tree, parent))
               IN put_node(h2, At(h.tree, starting_position), parent)

heapify_up(h, starting_position) ==
  IF h.err # "" \/ starting_position = offset(h.d) THEN h
  ELSE IF parent_of_overflows(h.d, starting_position) THEN Fail(h, Overflow)
  ELSE LET parent == parent_of(h.d, starting_position)
       IN IF ge(At(h.tree, starting_position).k, At(h.tree, parent).k) THEN h
          ELSE up_loop(h, At(h.tree, starting_position),
                       starting_position, parent)

\* the scan that takes a later sibling also when its key is equal
RECURSIVE scan_children_le(_, _, _, _)
scan_children_le(h, first_child, best, i) ==
  IF i >= h.d \/ first_child + i >= Len(h.tree) THEN best
  ELSE IF le(At(h.tree, first_child + i).k, At(h.tree, best).k)
    THEN scan_children_le(h, first_child, first_child + i, i + 1)
  ELSE scan_children_le(h, first_child, best, i + 1)

\* the for loop over the siblings, lines 76-84 and 106-114: `best` is the
\* best child so far, i the next sibling to look at
RECURSIVE scan_children(_, _, _, _)
scan_children(h, first_child, best, i) ==
  IF i >= h.d \/ first_child + i >= Len(h.tree) THEN best
  ELSE IF lt(At(h.tree, first_child + i).k, At(h.tree, best).k)
    THEN scan_children(h, first_child, first_child + i, i + 1)
  ELSE scan_children(h, first_child, best, i + 1)

\* the scan that stops at the first child
best_child_is_first(h, first_child) == first_child

best_child_of(h, first_child) == scan_children(h, first_child, first_child, 1)

\* the while loop of heapify_down without line 97: the child moved up is
\* not given its new position
RECURSIVE down_loop_child_untracked(_, _, _, _, _)
down_loop_child_untracked(h, node, parent, best_child, tree_len) ==
  IF h.err # "" THEN h
  ELSE IF gt(node.k, At(h.tree, best_child).k)
    THEN LET h2 == SetSlot(h, parent, At(h.tree, best_child))
             first_child == left_child_of(h.d, best_child)
         IN IF first_child >= tree_len THEN put_node(h2, node, best_child)
            ELSE down_loop_child_untracked(h2, node, best_child,
                           best_child_of(h2, first_child), tree_len)
  ELSE put_node(h, node, parent)

\* the while loop of heapify_down, lines 94-115; tree_len is read once, at
\* entry of heapify_down
RECURSIVE down_loop(_, _, _, _, _)
down_loop(h, node, parent, best_child, tree_len) ==
  IF h.err # "" THEN h
  ELSE IF gt(node.k, At(h.tree, best_child).k)
    THEN LET h1 == P_update_position_of(h, At(h.tree, best_child).n, parent)
             h2 == SetSlot(h1, parent, At(h.tree, best_child))
             first_child == left_child_of(h.d, best_child)
         IN IF first_child >= tree_len THEN put_node(h2, node, best_child)
            ELSE down_loop(h2, node, best_child,
                           best_child_of(h2, first_child), tree_len)
  ELSE put_node(h, node, parent)

heapify_down(h, starting_position) ==
  IF h.err # "" THEN h
  ELSE LET tree_len == Len(h.tree)
           first_child == left_child_of(h.d, starting_position)
       IN IF first_child >= tree_len THEN h
          ELSE LET best_child == best_child_of(h, first_child)
               IN IF le(At(h.tree, starting_position).k,
                        At(h.tree, best_child).k) THEN h
                  ELSE down_loop(h, At(h.tree, starting_position),
                                 starting_position, best_child, tree_len)

\* remove_and_heapify that moves the last slot in and restores nothing
remove_and_heapify_unsifted(h, starting_position) ==
  IF h.err # "" THEN h
  ELSE LET last == Len(h.tree) - 1
           h1 == P_remove(h, At(h.tree, starting_position).n)
       IN IF starting_position = last THEN truncate(h1, last)
          ELSE truncate(SetSlot(P_update_position_of(h1, At(h.tree, last).n,
                                                     starting_position),
                                starting_position, At(h.tree, last)), last)

\* remove_and_heapify that sifts the moved pair down whatever its parent
remove_and_heapify_down_only(h, starting_position) ==
  IF h.err # "" THEN h
  ELSE LET tree_len == Len(h.tree)
           last == tree_len - 1
       IN IF starting_position = last
            THEN truncate(P_remove(h, At(h.tree, starting_position).n), last)
          ELSE LET h1 == P_remove(h, At(h.tree, starting_position).n)
                   h2 == P_update_position_of(h1, At(h.tree, last).n,
                                              starting_position)
                   h3 == SetSlot(h2, starting_position, At(h.tree, last))
               IN heapify_down(truncate(h3, last), starting_position)

\* remove_and_heapify that looks at the parent of the refilled slot without
\* the test starting_position > offset of line 140
remove_and_heapify_parent_at_root(h, starting_position) ==
  IF h.err # "" THEN h
  ELSE LET tree_len == Len(h.tree)
           last == tree_len - 1
       IN IF starting_position = last
            THEN truncate(P_remove(h, At(h.tree, starting_position).n), last)
          ELSE LET h1 == P_remove(h, At(h.tree, starting_position).n)
                   h2 == P_update_position_of(h1, At(h.tree, last).n,
                                              starting_position)
                   h3 == SetSlot(h2, starting_position, At(h.tree, last))
                   h4 == truncate(h3, last)
               IN IF h4.err # "" THEN h4
                  ELSE IF parent_of_overflows(h.d, starting_position)
                    THEN Fail(h4, Overflow)
                  ELSE IF lt(At(h4.tree, starting_position).k,
                             At(h4.tree,
                                parent_of(h.d, starting_position)).k)
                    THEN heapify_up(h4, starting_position)
                  ELSE heapify_down(h4, starting_position)

remove_and_heapify(h, starting_position) ==
  IF h.err # "" THEN h
  ELSE LET tree_len == Len(h.tree)
           last == tree_len - 1
       IN IF tree_len = offset(h.d) + 1
            THEN IF offset(h.d) # starting_position
                   THEN Fail(h, "assertion failed: offset == starting_position")
                 ELSE truncate(P_remove(h, At(h.tree, offset(h.d)).n),
                               offset(h.d))
          ELSE IF starting_position = last
            THEN truncate(P_remove(h, At(h.tree, starting_position).n), last)
          ELSE LET h1 == P_remove(h, At(h.tree, starting_position).n)
                   h2 == P_update_position_of(h1, At(h.tree, last).n,
                                              starting_position)
                   h3 == SetSlot(h2, starting_position, At(h.tree, last))
                   h4 == truncate(h3, last)
               IN IF h4.err # "" THEN h4
                  ELSE IF starting_position > offset(h.d)
                          /\ parent_of_overflows(h.d, starting_position)
                    THEN Fail(h4, Overflow)
                  ELSE IF starting_position > offset(h.d)
                          /\ lt(At(h4.tree, starting_position).k,
                                At(h4.tree,
                                   parent_of(h.d, starting_position)).k)
                    THEN heapify_up(h4, starting_position)
                  ELSE heapify_down(h4, starting_position)

\* ------------------------------------------------- results of public calls
\* A public call yields [h, ret]: the heap it leaves and what it returns,
\* ret = [tag, n, k] with NONE for the parts the result does not have.
Val(tag, n, k) == [tag |-> tag, n |-> n, k |-> k]
Unit == Val("Unit", NONE, NONE)
None == Val("None", NONE, NONE)
Some(n, k) == Val("Some", n, k)
Bool(b) == Val(IF b THEN "true" ELSE "false", NONE, NONE)
Panic == Val("Panic", NONE, NONE)
Res(h, r) == [h |-> h, ret |-> IF h.err # "" THEN Panic ELSE r]

\* ------------------------------------------------ impl PriorityQueue, Heap
\* len that counts the sentinel slots too
len_with_sentinel(h) == Len(h.tree)

len(h) == Len(h.tree) - offset(h.d)
is_empty(h) == Len(h.tree) = offset(h.d)
\* peek that reads slot 0 whatever the offset
peek_slot_zero(h) ==
  IF 0 < Len(h.tree) THEN Some(At(h.tree, 0).n, At(h.tree, 0).k) ELSE None

peek(h) ==
  IF offset(h.d) < Len(h.tree)
    THEN Some(At(h.tree, offset(h.d)).n, At(h.tree, offset(h.d)).k)
  ELSE None
as_slice(h) == SubSeq(h.tree, offset(h.d) + 1, Len(h.tree))

\* iteration over the heap by value: the tree, its first offset slots skipped
into_iter(h) ==
  [i \in 1..(Len(h.tree) - offset(h.d)) |-> h.tree[i + offset(h.d)]]

\* clear that empties the tree, sentinel slots included
clear_truncate_zero(h) == Res(P_clear(truncate(h, 0)), Unit)

clear(h) == Res(P_clear(truncate(h, offset(h.d))), Unit)

\* swap_remove that drops the last slot without moving it to slot i
swap_remove_drop_last(h, i) ==
  IF h.err # "" THEN h ELSE truncate(h, Len(h.tree) - 1)

\* Vec::swap_remove
swap_remove(h, i) ==
  IF h.err # "" THEN h
  ELSE truncate(SetSlot(h, i, At(h.tree, Len(h.tree) - 1)), Len(h.tree) - 1)

\* the else branch without line 185: the tracker is not told that the last
\* element goes to the root
pop_root_last_unnotified(h) ==
  LET h2 == P_remove(h, At(h.tree, offset(h.d)).n)
      h3 == swap_remove(h2, offset(h.d))
  IN heapify_down(h3, offset(h.d))

\* the else branch with lines 185 and 186 exchanged: the root is taken out
\* of the tracker before the last element is given its position
pop_root_remove_first(h) ==
  LET last_node == At(h.tree, Len(h.tree) - 1).n
      h1 == P_remove(h, At(h.tree, offset(h.d)).n)
      h2 == P_update_position_of(h1, last_node, offset(h.d))
      h3 == swap_remove(h2, offset(h.d))
  IN heapify_down(h3, offset(h.d))

\* the else branch shared (as three copies) by pop, pop_node and pop_key
pop_root(h) ==
  LET last_node == At(h.tree, Len(h.tree) - 1).n
      h1 == P_update_position_of(h, last_node, offset(h.d))
      h2 == P_remove(h1, At(h.tree, offset(h.d)).n)
      h3 == swap_remove(h2, offset(h.d))
  IN heapify_down(h3, offset(h.d))

\* pop that returns None for a heap of one element
pop_none_at_last(h) ==
  IF Len(h.tree) <= offset(h.d) + 1 THEN Res(h, None)
  ELSE Res(pop_root(h),
           Some(At(h.tree, offset(h.d)).n, At(h.tree, offset(h.d)).k))

pop(h) ==
  IF Len(h.tree) = offset(h.d) THEN Res(h, None)
  ELSE Res(pop_root(h),
           Some(At(h.tree, offset(h.d)).n, At(h.tree, offset(h.d)).k))
\* pop_node that leaves the last pair at the root without sifting it down
pop_node_unsifted(h) ==
  IF Len(h.tree) = offset(h.d) THEN Res(h, None)
  ELSE LET last_node == At(h.tree, Len(h.tree) - 1).n
           h1 == P_update_position_of(h, last_node, offset(h.d))
           h2 == P_remove(h1, At(h.tree, offset(h.d)).n)
       IN Res(swap_remove(h2, offset(h.d)),
              Some(At(h.tree, offset(h.d)).n, NONE))

pop_node(h) ==
  IF Len(h.tree) = offset(h.d) THEN Res(h, None)
  ELSE Res(pop_root(h), Some(At(h.tree, offset(h.d)).n, NONE))
pop_key(h) ==
  IF Len(h.tree) = offset(h.d) THEN Res(h, None)
  ELSE Res(pop_root(h), Some(NONE, At(h.tree, offset(h.d)).k))

push_slot(h, node, key) ==
  IF h.err # "" THEN h
  ELSE [h EXCEPT !.tree = Append(h.tree, [n |-> node, k |-> key])]

\* push that ignores an element the tree holds already
push_once(h, node, key) ==
  IF \E i \in offset(h.d)..(Len(h.tree) - 1) : At(h.tree, i).n = node
    THEN Res(h, Unit)
  ELSE LET position == Len(h.tree)
           h1 == P_insert(h, node, position)
           h2 == push_slot(h1, node, key)
       IN Res(heapify_up(h2, position), Unit)

\* push that appends the pair before it tells the tracker
push_appends_first(h, node, key) ==
  LET position == Len(h.tree)
      h1 == push_slot(h, node, key)
      h2 == P_insert(h1, node, position)
  IN Res(heapify_up(h2, position), Unit)

push(h, node, key) ==
  LET position == Len(h.tree)
      h1 == P_insert(h, node, position)
      h2 == push_slot(h1, node, key)
  IN Res(heapify_up(h2, position), Unit)

\* push_then_pop that overwrites the root and does not sift it down
push_then_pop_no_sift(h, node, key) ==
  IF Len(h.tree) = offset(h.d) \/ ge(At(h.tree, offset(h.d)).k, key)
    THEN Res(h, Some(node, key))
  ELSE LET h1 == P_remove(h, At(h.tree, offset(h.d)).n)
           h2 == P_insert(h1, node, offset(h.d))
           popped_node == At(h.tree, offset(h.d))
       IN Res(SetSlot(h2, offset(h.d), [n |-> node, k |-> key]),
              Some(popped_node.n, popped_node.k))

\* push_then_pop that keeps the candidate when the heap is empty
push_then_pop_keeps_on_empty(h, node, key) ==
  IF Len(h.tree) = offset(h.d)
    THEN Res(heapify_up(push_slot(P_insert(h, node, Len(h.tree)), node, key),
                        Len(h.tree)),
             Some(node, key))
  ELSE IF ge(At(h.tree, offset(h.d)).k, key) THEN Res(h, Some(node, key))
  ELSE LET h1 == P_remove(h, At(h.tree, offset(h.d)).n)
           h2 == P_insert(h1, node, offset(h.d))
           popped_node == At(h.tree, offset(h.d))
           h3 == SetSlot(h2, offset(h.d), [n |-> node, k |-> key])
       IN Res(heapify_down(h3, offset(h.d)),
              Some(popped_node.n, popped_node.k))

push_then_pop(h, node, key) ==
  IF Len(h.tree) = offset(h.d) \/ ge(At(h.tree, offset(h.d)).k, key)
    THEN Res(h, Some(node, key))
  ELSE LET h1 == P_remove(h, At(h.tree, offset(h.d)).n)
           h2 == P_insert(h1, node, offset(h.d))
           popped_node == At(h.tree, offset(h.d))
           h3 == SetSlot(h2, offset(h.d), [n |-> node, k |-> key])
       IN Res(heapify_down(h3, offset(h.d)),
              Some(popped_node.n, popped_node.k))

\* ------------------------------------------ impl PriorityQueueDecKey, Heap
\* position lookup through the tracker: the heap (panicked on an identifier
\* outside the position array) and the Option<usize> found
lookup(h, node) ==
  IF P_oob(h, node) THEN [h |-> Fail(h, "index out of bounds"), pos |-> NONE]
  ELSE [h |-> h, pos |-> P_position_of(h, node)]

contains(h, node) ==
  IF P_oob(h, node) THEN Res(Fail(h, "index out of bounds"), Bool(FALSE))
  ELSE Res(h, Bool(P_contains(h, node)))

key_of(h, node) ==
  LET l == lookup(h, node)
  IN IF l.pos = NONE THEN Res(l.h, None)
     ELSE Res(h, Some(NONE, At(h.tree, l.pos).k))

\* the key assignment of line 290 / 299 left out
set_key_unwritten(h, position, key) == h

set_key(h, position, key) ==
  SetSlot(h, position, [n |-> At(h.tree, position).n, k |-> key])

\* decrease_key that writes the key before it checks it
decrease_key_checked_late(h, node, decreased_key) ==
  LET l == lookup(h, node)
  IN IF l.h.err # "" THEN Res(l.h, Unit)
     ELSE IF l.pos = NONE
       THEN Res(Fail(h, "cannot decrease key of a node that is not on the queue"),
                Unit)
     ELSE IF ~le(decreased_key, At(h.tree, l.pos).k)
       THEN Res(Fail(set_key(h, l.pos, decreased_key),
                     "decrease_key is called with a greater key"), Unit)
     ELSE Res(heapify_up(set_key(h, l.pos, decreased_key), l.pos), Unit)

\* decrease_key whose assertion asks for a strictly smaller key
decrease_key_strict(h, node, decreased_key) ==
  LET l == lookup(h, node)
  IN IF l.h.err # "" THEN Res(l.h, Unit)
     ELSE IF l.pos = NONE
       THEN Res(Fail(h, "cannot decrease key of a node that is not on the queue"),
                Unit)
     ELSE IF ~lt(decreased_key, At(h.tree, l.pos).k)
       THEN Res(Fail(h, "decrease_key is called with a greater key"), Unit)
     ELSE Res(heapify_up(set_key(h, l.pos, decreased_key), l.pos), Unit)

decrease_key(h, node, decreased_key) ==
  LET l == lookup(h, node)
  IN IF l.h.err # "" THEN Res(l.h, Unit)
     ELSE IF l.pos = NONE
       THEN Res(Fail(h, "cannot decrease key of a node that is not on the queue"),
                Unit)
     ELSE IF ~le(decreased_key, At(h.tree, l.pos).k)
       THEN Res(Fail(h, "decrease_key is called with a greater key"), Unit)
     ELSE Res(heapify_up(set_key(h, l.pos, decreased_key), l.pos), Unit)

\* update_key without the heapify_down of line 304
update_key_never_down(h, node, new_key) ==
  LET l == lookup(h, node)
  IN IF l.h.err # "" THEN Res(l.h, Unit)
     ELSE IF l.pos = NONE
       THEN Res(Fail(h, "cannot update key of a node that is not on the queue"),
                Unit)
     ELSE LET up == lt(new_key, At(h.tree, l.pos).k)
              h1 == set_key(h, l.pos, new_key)
          IN IF up THEN Res(heapify_up(h1, l.pos), Val("Decreased", NONE, NONE))
             ELSE Res(h1, Val("Increased", NONE, NONE))

update_key(h, node, new_key) ==
  LET l == lookup(h, node)
  IN IF l.h.err # "" THEN Res(l.h, Unit)
     ELSE IF l.pos = NONE
       THEN Res(Fail(h, "cannot update key of a node that is not on the queue"),
                Unit)
     ELSE LET up == lt(new_key, At(h.tree, l.pos).k)
              h1 == set_key(h, l.pos, new_key)
          IN IF up THEN Res(heapify_up(h1, l.pos), Val("Decreased", NONE, NONE))
             ELSE Res(heapify_down(h1, l.pos), Val("Increased", NONE, NONE))

\* remove that returns quietly when the node is not on the queue
remove_absent_ignored(h, node) ==
  LET l == lookup(h, node)
  IN IF l.h.err # "" THEN Res(l.h, Unit)
     ELSE IF l.pos = NONE THEN Res(h, None)
     ELSE Res(remove_and_heapify(h, l.pos),
              Some(NONE, At(h.tree, l.pos).k))

remove(h, node) ==
  LET l == lookup(h, node)
  IN IF l.h.err # "" THEN Res(l.h, Unit)
     ELSE IF l.pos = NONE
       THEN Res(Fail(h, "cannot remove a node that is not on the queue"), Unit)
     ELSE Res(remove_and_heapify(h, l.pos),
              Some(NONE, At(h.tree, l.pos).k))

\* ------------------------- default methods of trait PriorityQueueDecKey
\* try_decrease_key that calls decrease_key whatever the new key
try_decrease_key_uncompared(h, node, new_key) ==
  LET old == key_of(h, node)
  IN IF old.h.err # "" THEN old
     ELSE IF old.ret = None
       THEN Res(Fail(h, "node must exist on the heap."), Unit)
     ELSE Res(decrease_key(h, node, new_key).h, Val("Decreased", NONE, NONE))

try_decrease_key(h, node, new_key) ==
  LET old == key_of(h, node)
  IN IF old.h.err # "" THEN old
     ELSE IF old.ret = None
       THEN Res(Fail(h, "node must exist on the heap."), Unit)
     ELSE IF lt(new_key, old.ret.k)
       THEN Res(decrease_key(h, node, new_key).h, Val("Decreased", NONE, NONE))
     ELSE Res(h, Val("Unchanged", NONE, NONE))

\* decrease_key_or_push that revises a present node with update_key
decrease_key_or_push_by_update(h, node, key) ==
  LET c == contains(h, node)
  IN IF c.h.err # "" THEN c
     ELSE IF c.ret = Bool(TRUE)
       THEN Res(update_key(h, node, key).h, Val("Decreased", NONE, NONE))
     ELSE Res(push(h, node, key).h, Val("Pushed", NONE, NONE))

decrease_key_or_push(h, node, key) ==
  LET c == contains(h, node)
  IN IF c.h.err # "" THEN c
     ELSE IF c.ret = Bool(TRUE)
       THEN Res(decrease_key(h, node, key).h, Val("Decreased", NONE, NONE))
     ELSE Res(push(h, node, key).h, Val("Pushed", NONE, NONE))

\* the conversion with its two arms exchanged
ResUpdateKeyOrPush_from_swapped(value) ==
  CASE value.tag = "Decreased" -> Val("Increased", NONE, NONE)
    [] value.tag = "Increased" -> Val("Decreased", NONE, NONE)
    [] OTHER -> value

\* impl From<ResUpdateKey> for ResUpdateKeyOrPush (a panic is passed on)
ResUpdateKeyOrPush_from(value) ==
  CASE value.tag = "Decreased" -> Val("Decreased", NONE, NONE)
    [] value.tag = "Increased" -> Val("Increased", NONE, NONE)
    [] OTHER -> value

\* update_key_or_push that does not ask contains first
update_key_or_push_unguarded(h, node, key) ==
  Res(update_key(h, node, key).h,
      ResUpdateKeyOrPush_from(update_key(h, node, key).ret))

update_key_or_push(h, node, key) ==
  LET c == contains(h, node)
  IN IF c.h.err # "" THEN c
     ELSE IF c.ret = Bool(TRUE)
       THEN Res(update_key(h, node, key).h,
                ResUpdateKeyOrPush_from(update_key(h, node, key).ret))
     ELSE Res(push(h, node, key).h, Val("Pushed", NONE, NONE))

\* try_decrease_key_or_push that compares with <= instead of <
try_decrease_key_or_push_le(h, node, key) ==
  LET old == key_of(h, node)
  IN IF old.h.err # "" THEN old
     ELSE IF old.ret # None
       THEN IF le(key, old.ret.k)
              THEN Res(decrease_key(h, node, key).h,
                       Val("Decreased", NONE, NONE))
            ELSE Res(h, Val("Unchanged", NONE, NONE))
     ELSE Res(push(h, node, key).h, Val("Pushed", NONE, NONE))

\* try_decrease_key_or_push that appends a second pair for a present node
\* with a smaller key instead of revising the pair it has
try_decrease_key_or_push_appends(h, node, key) ==
  LET old == key_of(h, node)
  IN IF old.h.err # "" THEN old
     ELSE IF old.ret # None
       THEN IF lt(key, old.ret.k)
              THEN Res(heapify_up(push_slot(h, node, key), Len(h.tree)),
                       Val("Decreased", NONE, NONE))
            ELSE Res(h, Val("Unchanged", NONE, NONE))
     ELSE Res(push(h, node, key).h, Val("Pushed", NONE, NONE))

\* try_decrease_key_or_push that leaves an absent node out of the queue
try_decrease_key_or_push_absent_left(h, node, key) ==
  LET old == key_of(h, node)
  IN IF old.h.err # "" THEN old
     ELSE IF old.ret # None
       THEN IF lt(key, old.ret.k)
              THEN Res(decrease_key(h, node, key).h,
                       Val("Decreased", NONE, NONE))
            ELSE Res(h, Val("Unchanged", NONE, NONE))
     ELSE Res(h, Val("Pushed", NONE, NONE))

try_decrease_key_or_push(h, node, key) ==
  LET old == key_of(h, node)
  IN IF old.h.err # "" THEN old
     ELSE IF old.ret # None
       THEN IF lt(key, old.ret.k)
              THEN Res(decrease_key(h, node, key).h,
                       Val("Decreased", NONE, NONE))
            ELSE Res(h, Val("Unchanged", NONE, NONE))
     ELSE Res(push(h, node, key).h, Val("Pushed", NONE, NONE))

\* ------------------------------------------------------------ the program
\* the heap held by the variables
Heap == [d |-> D, kind |-> kind, tree |-> tree, positions |-> positions,
         err |-> err]

NoTwin == <<>>
NoRun == [pc |-> "none"]
NoArith == [op |-> "none"]
NoDrain == [pc |-> "none"]

\* the graph of the shortest path search: adj_list[v + 1] holds the edges
\* that leave node v, in the order they are written
adj_list ==
  << <<[node |-> 2, cost |-> 10], [node |-> 1, cost |-> 1]>>,
     <<[node |-> 3, cost |-> 2]>>,
     <<[node |-> 1, cost |-> 1], [node |-> 3, cost |-> 3],
       [node |-> 4, cost |-> 1]>>,
     <<[node |-> 0, cost |-> 7], [node |-> 4, cost |-> 2]>>,
     <<>> >>
Vertices == 0..(Len(adj_list) - 1)
\* usize::MAX, the distance of a node not reached yet; it is only compared
usize_MAX == 2147483647
\* the elements a history is kept for
Elements == Nodes \cup Vertices \cup (0..(RemoveLen - 1))

Init ==
  /\ D \in DSet
  /\ kind \in Kinds
  /\ \E g \in Garbage :
       /\ tree = Heap_new(D, kind, g).tree
       /\ positions = Heap_new(D, kind, g).positions
  /\ err = ""
  /\ assigned = [n \in Elements |-> NONE]
  /\ pairs = EmptyBag
  /\ twin = NoTwin
  /\ dj = NoRun
  /\ ar = NoArith
  /\ dr = NoDrain

HasDecKey == kind \in {"index", "map"}

\* The history after a call on `node` with `key` that returned `r`, written
\* from the call and its result alone. It is kept for the heaps whose
\* elements are distinct; a call that panicked records nothing.
Track(call, node, key, r) ==
  IF ~HasDecKey \/ r = Panic THEN assigned
  ELSE CASE call \in {"push", "decrease_key", "update_key"} ->
              [assigned EXCEPT ![node] = key]
         [] call \in {"try_decrease_key", "decrease_key_or_push",
                      "update_key_or_push", "try_decrease_key_or_push"} ->
              IF r.tag = "Unchanged" THEN assigned
              ELSE [assigned EXCEPT ![node] = key]
         [] call \in {"pop", "pop_node"} ->
              IF r.tag = "Some" THEN [assigned EXCEPT ![r.n] = NONE]
              ELSE assigned
         \* pop_key does not name the element: it is the one peek named
         [] call = "pop_key" ->
              IF r.tag = "Some" THEN [assigned EXCEPT ![node] = NONE]
              ELSE assigned
         [] call = "remove" -> [assigned EXCEPT ![node] = NONE]
         [] call = "clear" -> [n \in Elements |-> NONE]
         \* the candidate handed back is a candidate that never entered;
         \* otherwise the pair returned was displaced by the candidate
         [] call = "push_then_pop" ->
              IF r = Some(node, key) THEN assigned
              ELSE [assigned EXCEPT ![r.n] = NONE, ![node] = key]
         [] OTHER -> assigned

BagAdd(b, e) == b (+) SetToBag({e})
BagDel(b, e) == b (-) SetToBag({e})

\* The bag of pairs after a call, written from the call, its arguments and
\* its result; the key a revised element had is the one the history gives.
\* pop_node and pop_key return half of the pair: the other half is the one
\* peek named before the call, handed in as `key` or as `node`.
TrackPairs(call, node, key, r) ==
  IF r = Panic THEN pairs
  ELSE CASE call = "push" -> BagAdd(pairs, <<node, key>>)
         [] call \in {"decrease_key", "update_key"} ->
              BagAdd(BagDel(pairs, <<node, assigned[node]>>), <<node, key>>)
         [] call \in {"try_decrease_key", "decrease_key_or_push",
                      "update_key_or_push", "try_decrease_key_or_push"} ->
              IF r.tag = "Unchanged" THEN pairs
              ELSE IF r.tag = "Pushed" THEN BagAdd(pairs, <<node, key>>)
              ELSE BagAdd(BagDel(pairs, <<node, assigned[node]>>),
                          <<node, key>>)
         [] call = "pop" ->
              IF r.tag = "Some" THEN BagDel(pairs, <<r.n, r.k>>) ELSE pairs
         [] call = "pop_node" ->
              IF r.tag = "Some" THEN BagDel(pairs, <<r.n, key>>) ELSE pairs
         [] call = "pop_key" ->
              IF r.tag = "Some" THEN BagDel(pairs, <<node, r.k>>) ELSE pairs
         [] call = "remove" -> BagDel(pairs, <<node, r.k>>)
         [] call = "clear" -> EmptyBag
         [] call = "push_then_pop" ->
              IF r = Some(node, key) THEN pairs
              ELSE BagAdd(BagDel(pairs, <<r.n, r.k>>), <<node, key>>)
         [] OTHER -> pairs

\* one public call on the heap: the heap and the result it leaves
HeapStep(call, node, key, r) ==
  /\ err = ""
  /\ tree' = r.h.tree
  /\ positions' = r.h.positions
  /\ err' = r.h.err
  /\ assigned' = Track(call, node, key, r.ret)
  /\ pairs' = TrackPairs(call, node, key, r.ret)
  /\ UNCHANGED <<D, kind, ar>>

\* one public call of a program that holds this heap
Step(call, node, key, r) ==
  HeapStep(call, node, key, r) /\ UNCHANGED <<twin, dj, dr>>

Room == len(Heap) < MaxLen
Present(node) == ~P_oob(Heap, node) /\ P_contains(Heap, node)

Push ==
  \E node \in NodesOf(kind), key \in Keys :
    Room /\ Step("push", node, key, push(Heap, node, key))
Pop == Step("pop", NONE, NONE, pop(Heap))
PopNode == Step("pop_node", NONE, peek(Heap).k, pop_node(Heap))
PopKey == Step("pop_key", peek(Heap).n, NONE, pop_key(Heap))
Peek == Step("peek", NONE, NONE, Res(Heap, peek(Heap)))
Clear == Step("clear", NONE, NONE, clear(Heap))
PushThenPop ==
  \E node \in NodesOf(kind), key \in Keys :
    Step("push_then_pop", node, key, push_then_pop(Heap, node, key))
Contains ==
  \E node \in NodesOf(kind) :
    HasDecKey /\ Step("contains", node, NONE, contains(Heap, node))
KeyOf ==
  \E node \in NodesOf(kind) :
    HasDecKey /\ Step("key_of", node, NONE, key_of(Heap, node))
DecreaseKey ==
  \E node \in NodesOf(kind), key \in Keys :
    HasDecKey
    /\ Step("decrease_key", node, key, decrease_key(Heap, node, key))
UpdateKey ==
  \E node \in NodesOf(kind), key \in Keys :
    HasDecKey
    /\ Step("update_key", node, key, update_key(Heap, node, key))
TryDecreaseKey ==
  \E node \in NodesOf(kind), key \in Keys :
    HasDecKey
    /\ Step("try_decrease_key", node, key,
            try_decrease_key(Heap, node, key))
Remove ==
  \E node \in NodesOf(kind) :
    HasDecKey /\ Step("remove", node, NONE, remove(Heap, node))
DecreaseKeyOrPush ==
  \E node \in NodesOf(kind), key \in Keys :
    HasDecKey /\ (Room \/ Present(node))
    /\ Step("decrease_key_or_push", node, key,
            decrease_key_or_push(Heap, node, key))
UpdateKeyOrPush ==
  \E node \in NodesOf(kind), key \in Keys :
    HasDecKey /\ (Room \/ Present(node))
    /\ Step("update_key_or_push", node, key,
            update_key_or_push(Heap, node, key))
TryDecreaseKeyOrPush ==
  \E node \in NodesOf(kind), key \in Keys :
    HasDecKey /\ (Room \/ Present(node))
    /\ Step("try_decrease_key_or_push", node, key,
            try_decrease_key_or_push(Heap, node, key))

Next ==
  \/ Push
  \/ Pop
  \/ PopNode
  \/ PopKey
  \/ Peek
  \/ Clear
  \/ PushThenPop
  \/ Contains
  \/ KeyOf
  \/ DecreaseKey
  \/ UpdateKey
  \/ TryDecreaseKey
  \/ Remove
  \/ DecreaseKeyOrPush
  \/ UpdateKeyOrPush
  \/ TryDecreaseKeyOrPush

Spec == Init /\ [][Next]_vars

\* ------------------------------------------- the program with a clone
\* #[derive(Clone)] on Heap and on the trackers: Vec::clone and
\* HashMap::clone build storage of their own (shared = FALSE) and copy the
\* members one by one, sentinel slots included. `calls` is the parity of the
\* number of calls made on the clone.
\* a clone that is a second handle on the storage of the heap
clone_aliased(h) == [shared |-> TRUE, calls |-> 0, h |-> h]

clone(h) ==
  [shared |-> FALSE, calls |-> 0,
   h |-> [d |-> h.d, kind |-> h.kind,
          tree |-> [i \in 1..Len(h.tree) |-> h.tree[i]],
          positions |-> [x \in DOMAIN h.positions |-> h.positions[x]],
          err |-> h.err]]

\* the heap seen through the clone
TwinHeap == IF twin.shared THEN Heap ELSE twin.h

MakeClone ==
  /\ err = "" /\ twin = NoTwin
  /\ twin' = clone(Heap)
  /\ UNCHANGED <<D, kind, tree, positions, err, assigned, pairs, dj, ar,
                 dr>>

\* one public call on the clone; a panic ends the program
TwinStep(r) ==
  /\ err = "" /\ twin # NoTwin
  /\ err' = r.h.err
  /\ IF twin.shared
       THEN /\ tree' = r.h.tree
            /\ positions' = r.h.positions
            /\ twin' = [twin EXCEPT !.calls = 1 - @]
       ELSE /\ twin' = [twin EXCEPT !.calls = 1 - @,
                                    !.h = [r.h EXCEPT !.err = ""]]
            /\ UNCHANGED <<tree, positions>>
  /\ UNCHANGED <<D, kind, assigned, pairs, dj, ar, dr>>

CloneRoom(h) == len(h) < CloneMaxLen

TwinPresent(node) == ~P_oob(TwinHeap, node) /\ P_contains(TwinHeap, node)

OrigPush ==
  \E node \in NodesOf(kind), key \in Keys :
    CloneRoom(Heap) /\ Step("push", node, key, push(Heap, node, key))
OrigPushThenPop ==
  \E node \in NodesOf(kind), key \in Keys :
    Step("push_then_pop", node, key, push_then_pop(Heap, node, key))
OrigUpdateKeyOrPush ==
  \E node \in NodesOf(kind), key \in Keys :
    HasDecKey /\ (CloneRoom(Heap) \/ Present(node))
    /\ Step("update_key_or_push", node, key,
            update_key_or_push(Heap, node, key))
TwinPush ==
  \E node \in NodesOf(kind), key \in Keys :
    twin # NoTwin /\ CloneRoom(TwinHeap)
    /\ TwinStep(push(TwinHeap, node, key))
TwinPop == twin # NoTwin /\ TwinStep(pop(TwinHeap))
TwinPushThenPop ==
  \E node \in NodesOf(kind), key \in Keys :
    twin # NoTwin /\ TwinStep(push_then_pop(TwinHeap, node, key))
TwinClear == twin # NoTwin /\ TwinStep(clear(TwinHeap))
TwinUpdateKeyOrPush ==
  \E node \in NodesOf(kind), key \in Keys :
    /\ twin # NoTwin /\ HasDecKey
    /\ CloneRoom(TwinHeap) \/ TwinPresent(node)
    /\ TwinStep(update_key_or_push(TwinHeap, node, key))
TwinRemove ==
  \E node \in NodesOf(kind) :
    twin # NoTwin /\ HasDecKey /\ TwinStep(remove(TwinHeap, node))

NextClone ==
  \/ OrigPush
  \/ OrigPushThenPop
  \/ OrigUpdateKeyOrPush
  \/ Pop
  \/ Remove
  \/ Clear
  \/ MakeClone
  \/ TwinPush
  \/ TwinPop
  \/ TwinPushThenPop
  \/ TwinClear
  \/ TwinUpdateKeyOrPush
  \/ TwinRemove

SpecClone == Init /\ [][NextClone]_vars

\* ------------------------------------ the program on a deeper mapped heap
\* A BinaryHeapWithMap of up to RemoveLen elements: with three levels, the
\* last pair and the pair removed can lie below different children of the
\* root.
RemoveNodes == 0..(RemoveLen - 1)
InitRemove == Init /\ D = 2 /\ kind = "map"

RemovePush ==
  \E node \in RemoveNodes, key \in Keys :
    len(Heap) < RemoveLen /\ Step("push", node, key, push(Heap, node, key))
RemoveRemove ==
  \E node \in RemoveNodes : Step("remove", node, NONE, remove(Heap, node))

NextRemove ==
  \/ RemovePush
  \/ RemoveRemove
  \/ Pop

SpecRemove == InitRemove /\ [][NextRemove]_vars

\* ------------------------------------------------ the index arithmetic
\* offset, parent_of and left_child_of of a heap with branching factor D,
\* evaluated at the slots the engine evaluates them at: a slot at or after
\* the offset for left_child_of, a slot after the root for parent_of.
SpecialD == {2, 4, 8, 16, 32, 64}
ArithDSet == SpecialD \cup 2..MaxArithD

InitArith ==
  /\ D \in ArithDSet
  /\ kind = "none"
  /\ \E g \in Garbage :
       /\ tree = Heap_new(D, kind, g).tree
       /\ positions = Heap_new(D, kind, g).positions
  /\ err = ""
  /\ assigned = [n \in Elements |-> NONE]
  /\ pairs = EmptyBag
  /\ twin = NoTwin
  /\ dj = NoRun
  /\ ar = NoArith
  /\ dr = NoDrain

Evaluated(op, arg, res) ==
  /\ ar' = [op |-> op, arg |-> arg, res |-> res]
  /\ UNCHANGED <<D, kind, tree, positions, err, assigned, pairs, twin, dj,
                 dr>>

LeftChildOf ==
  \E parent \in offset(D)..(offset(D) + MaxLogical) :
    Evaluated("left_child_of", parent, left_child_of(D, parent))
ParentOf ==
  \E child \in (offset(D) + 1)..(offset(D) + MaxLogical) :
    Evaluated("parent_of", child, parent_of(D, child))

NextArith ==
  \/ LeftChildOf
  \/ ParentOf

SpecArith == InitArith /\ [][NextArith]_vars

\* ------------------------------------------------------ the drain loop
\* `while let Some(..) = pq.pop() {}` entered after any calls: once the loop
\* is entered nothing but its pops is called; dr.n is the length at entry and
\* dr.pops the number of pops that returned a pair. The loop is the only
\* thing the thread runs, so its next pop is taken (weak fairness).
StartDrain ==
  /\ err = "" /\ dr = NoDrain
  /\ dr' = [pc |-> "loop", n |-> len(Heap), pops |-> 0]
  /\ UNCHANGED <<D, kind, tree, positions, err, assigned, pairs, twin, dj,
                 ar>>

DrainPop ==
  /\ dr.pc = "loop"
  /\ LET r == pop(Heap)
     IN /\ HeapStep("pop", NONE, NONE, r)
        /\ dr' = CASE r.ret.tag = "Some" -> [dr EXCEPT !.pops = @ + 1]
                   [] r.ret = None -> [dr EXCEPT !.pc = "done"]
                   [] OTHER -> [dr EXCEPT !.pc = "panic"]
        /\ UNCHANGED <<twin, dj>>

NextDrain ==
  \/ dr = NoDrain /\ Next
  \/ StartDrain
  \/ DrainPop

\* what a step of DrainPop does to dr: the loop goes on to its next pop or
\* leaves. No other step of NextDrain changes dr while the loop runs.
DrainIteration ==
  /\ dr.pc = "loop" /\ err = ""
  /\ dr' \in {[dr EXCEPT !.pops = @ + 1], [dr EXCEPT !.pc = "done"],
              [dr EXCEPT !.pc = "panic"]}

SpecDrain == Init /\ [][NextDrain]_vars /\ WF_dr(DrainIteration)

\* ------------------------------------------- the shortest path search
\* fn shortest_path(adj_list, start, goal) of tests/dijkstra.rs on a
\* BinaryHeapWithMap: the lines before the loop, one pop with the tests
\* that follow it, and one edge of the for loop are a step each.
\* `if better_tail` is written for a call that answers with a bool; the call
\* answers Pushed, Decreased or Unchanged, and the first two are the
\* answers after which the element has `next_cost` as its key.
InitDijkstra == Init /\ D = 2 /\ kind = "map"

better_tail(ret) == ret.tag \in {"Pushed", "Decreased"}

DjStep(call, node, key, r, run) ==
  /\ HeapStep(call, node, key, r)
  /\ dj' = IF r.ret = Panic THEN [dj EXCEPT !.pc = "panic"] ELSE run
  /\ UNCHANGED <<twin, dr>>

DjStart ==
  \E start \in Vertices, goal \in Vertices :
    /\ dj = NoRun
    /\ DjStep("push", start, 0, push(Heap, start, 0),
              [pc |-> "loop", start |-> start, goal |-> goal,
               dist |-> [v \in Vertices |->
                          IF v = start THEN 0 ELSE usize_MAX],
               position |-> NONE, cost |-> NONE, edge |-> 0,
               result |-> Val("Running", NONE, NONE)])

DjPop ==
  /\ dj.pc = "loop"
  /\ LET r == pop(Heap)
         position == r.ret.n
         cost == r.ret.k
     IN DjStep("pop", NONE, NONE, r,
          IF r.ret = None
            THEN [dj EXCEPT !.pc = "done", !.result = None]
          ELSE IF position = dj.goal
            THEN [dj EXCEPT !.pc = "done",
                            !.result = Val("Some", NONE, cost)]
          ELSE IF cost > dj.dist[position] \/ adj_list[position + 1] = <<>>
            THEN dj
          ELSE [dj EXCEPT !.pc = "edges", !.position = position,
                          !.cost = cost, !.edge = 1])

DjRelax ==
  /\ dj.pc = "edges"
  /\ LET edges == adj_list[dj.position + 1]
         edge == edges[dj.edge]
         next_cost == dj.cost + edge.cost
         r == try_decrease_key_or_push(Heap, edge.node, next_cost)
         last == dj.edge = Len(edges)
     IN DjStep("try_decrease_key_or_push", edge.node, next_cost, r,
          [dj EXCEPT !.dist = IF better_tail(r.ret)
                                THEN [@ EXCEPT ![edge.node] = next_cost]
                              ELSE @,
                     !.edge = IF last THEN 0 ELSE @ + 1,
                     !.pc = IF last THEN "loop" ELSE "edges"])

NextDijkstra ==
  \/ DjStart
  \/ DjPop
  \/ DjRelax

SpecDijkstra == InitDijkstra /\ [][NextDijkstra]_vars

\* ------------------------------------- the program with incomparable keys
\* The indexed and mapped heaps, called with keys among which one (NaN) is
\* incomparable with every key.
KeysNaN == Keys \cup {NaN}

InitNaN == Init /\ HasDecKey

PushNaN ==
  \E node \in Nodes, key \in KeysNaN :
    Room /\ Step("push", node, key, push(Heap, node, key))
PushThenPopNaN ==
  \E node \in Nodes, key \in KeysNaN :
    Step("push_then_pop", node, key, push_then_pop(Heap, node, key))
DecreaseKeyNaN ==
  \E node \in Nodes, key \in KeysNaN :
    Step("decrease_key", node, key, decrease_key(Heap, node, key))
UpdateKeyNaN ==
  \E node \in Nodes, key \in KeysNaN :
    Step("update_key", node, key, update_key(Heap, node, key))
TryDecreaseKeyNaN ==
  \E node \in Nodes, key \in KeysNaN :
    Step("try_decrease_key", node, key, try_decrease_key(Heap, node, key))
DecreaseKeyOrPushNaN ==
  \E node \in Nodes, key \in KeysNaN :
    (Room \/ Present(node))
    /\ Step("decrease_key_or_push", node, key,
            decrease_key_or_push(Heap, node, key))
UpdateKeyOrPushNaN ==
  \E node \in Nodes, key \in KeysNaN :
    (Room \/ Present(node))
    /\ Step("update_key_or_push", node, key,
            update_key_or_push(Heap, node, key))
TryDecreaseKeyOrPushNaN ==
  \E node \in Nodes, key \in KeysNaN :
    (Room \/ Present(node))
    /\ Step("try_decrease_key_or_push", node, key,
            try_decrease_key_or_push(Heap, node, key))

NextNaN ==
  \/ PushNaN
  \/ PushThenPopNaN
  \/ DecreaseKeyNaN
  \/ UpdateKeyNaN
  \/ TryDecreaseKeyNaN
  \/ DecreaseKeyOrPushNaN
  \/ UpdateKeyOrPushNaN
  \/ TryDecreaseKeyOrPushNaN
  \/ Pop
  \/ PopNode
  \/ PopKey
  \/ Remove
  \/ Clear

SpecNaN == InitNaN /\ [][NextNaN]_vars

\* ---------------------------------------------------------------- claims
Ok == err = ""
\* the physical indices of the live slots
Live(h) == offset(h.d)..(Len(h.tree) - 1)
Tracked(h) == h.kind \in {"index", "map"}
\* the identifiers the heap admits
Admissible(h) == IF h.kind = "index" THEN 0..(IndexBound - 1) ELSE NodesOf(h.kind)

HeapOrder(h) ==
  \A c \in Live(h) \ {offset(h.d)} :
    le(At(h.tree, parent_of(h.d, c)).k, At(h.tree, c).k)

\* C1: heap order. In every state reached by public operations that did not
\* fail, the key at parent_of(c) is <= the key at c for every live slot c
\* other than the root, whatever D and whatever the tracker.
C1_HeapOrder == Ok => HeapOrder(Heap)

\* a D = 3 heap (offset 0) three levels deep with strictly growing keys
\* along the path from the root to slot 4
C1_Witness ==
  /\ Ok /\ D = 3 /\ Len(tree) = 5
  /\ lt(At(tree, 0).k, At(tree, 1).k)
  /\ lt(At(tree, 1).k, At(tree, 4).k)

InTree(h) == {At(h.tree, i).n : i \in Live(h)}
InTracker(h) == {n \in Admissible(h) : P_contains(h, n)}
TrackerAgreement(h) ==
  /\ InTracker(h) = InTree(h)
  /\ \A n \in InTracker(h) :
       /\ P_position_of(h, n) \in Live(h)
       /\ At(h.tree, P_position_of(h, n)).n = n

\* C2: tracker agreement. For the indexed and the mapped heap, in every
\* state reached without a failure the elements the tracker reports present
\* are the elements of the live slots, and the slot recorded for each holds it.
C2_TrackerAgreement == (Ok /\ Tracked(Heap)) => TrackerAgreement(Heap)

\* a mapped binary heap of four elements, three levels deep with strictly
\* growing keys down to slot 4, whose element the tracker records at slot 4
C2_Witness ==
  /\ Ok /\ kind = "map" /\ D = 2 /\ len(Heap) = 4
  /\ positions[At(tree, 4).n] = 4
  /\ lt(At(tree, 1).k, At(tree, 2).k)
  /\ lt(At(tree, 2).k, At(tree, 4).k)

\* the number of live slots holding the pair <<n, k>>
Count(h, n, k) ==
  Cardinality({i \in Live(h) : At(h.tree, i).n = n /\ At(h.tree, i).k = k})
LiveKeys(h) == {At(h.tree, i).k : i \in Live(h)}
IsMinKey(h, k) == \A x \in LiveKeys(h) : le(k, x)

\* C3: pop on a non-empty heap returns one live pair whose key is minimal
\* among the live keys, and the multiset of live pairs afterwards is the
\* multiset before minus that pair.
C3_PopRemovesMin ==
  (Ok /\ ~is_empty(Heap)) =>
    LET r == pop(Heap)
    IN /\ r.ret.tag = "Some"
       /\ Count(Heap, r.ret.n, r.ret.k) >= 1
       /\ IsMinKey(Heap, r.ret.k)
       /\ len(r.h) = len(Heap) - 1
       /\ \A n \in NodesOf(kind), k \in Keys :
            Count(r.h, n, k) =
              Count(Heap, n, k) - (IF n = r.ret.n /\ k = r.ret.k THEN 1 ELSE 0)

\* a heap of at least four pairs whose pop sifts the former last pair down
\* from the root
C3_Witness ==
  /\ Ok /\ len(Heap) >= 4
  /\ At(pop(Heap).h.tree, offset(D)) # At(tree, Len(tree) - 1)

\* C4: peek returns a pair exactly when len() > 0 and the key of that pair is
\* the minimum of the live keys (peek takes &self: it yields a value and
\* leaves the heap as it is).
C4_PeekIsMin ==
  Ok =>
    /\ (peek(Heap).tag = "Some") <=> (len(Heap) > 0)
    /\ (peek(Heap) = None) <=> (len(Heap) = 0)
    /\ peek(Heap).tag = "Some" =>
         /\ Count(Heap, peek(Heap).n, peek(Heap).k) >= 1
         /\ IsMinKey(Heap, peek(Heap).k)

\* a binary heap (one sentinel slot) of at least three pairs and two
\* different keys, the sentinel slot holding a key below the minimum
C4_Witness ==
  /\ Ok /\ D = 2 /\ len(Heap) >= 3
  /\ Cardinality(LiveKeys(Heap)) >= 2
  /\ lt(At(tree, 0).k, peek(Heap).k)

\* the pairs returned by popping until pop returns None (at most `fuel` pops)
RECURSIVE Drain(_, _)
Drain(h, fuel) ==
  IF fuel = 0 \/ h.err # "" \/ pop(h).ret.tag # "Some" THEN <<>>
  ELSE <<pop(h).ret>> \o Drain(pop(h).h, fuel - 1)

NonDecreasing(s) == \A i \in 1..(Len(s) - 1) : le(s[i].k, s[i + 1].k)

\* C5: from every state reached by any interleaving of public operations,
\* popping repeatedly returns keys in non-decreasing order.
C5_DrainSorted == Ok => NonDecreasing(Drain(Heap, MaxLen + 1))

\* a mapped heap of four elements with three different keys, drained
C5_Witness ==
  /\ Ok /\ kind = "map" /\ len(Heap) = 4
  /\ Len(Drain(Heap, MaxLen + 1)) = 4
  /\ Cardinality(LiveKeys(Heap)) = 3

\* the abstract map of a heap, as the set of its entries <<element, key>>
AbsMap(h) == {<<At(h.tree, i).n, At(h.tree, i).k>> : i \in Live(h)}
Dom(M) == {e[1] : e \in M}
KeyIn(M, n) == (CHOOSE e \in M : e[1] = n)[2]
IsMap(M) == \A a, b \in M : a[1] = b[1] => a = b
\* the abstract operations
MSet(M, n, k) == {e \in M : e[1] # n} \cup {<<n, k>>}
MDel(M, n) == {e \in M : e[1] # n}
MAfter(call, M, n, k) ==
  CASE call = "push" -> MSet(M, n, k)
    [] call = "decrease_key" -> MSet(M, n, k)
    [] call = "update_key" -> MSet(M, n, k)
    [] call = "try_decrease_key" ->
         IF lt(k, KeyIn(M, n)) THEN MSet(M, n, k) ELSE M
    [] call = "decrease_key_or_push" -> MSet(M, n, k)
    [] call = "update_key_or_push" -> MSet(M, n, k)
    [] call = "try_decrease_key_or_push" ->
         IF n \in Dom(M) /\ ~lt(k, KeyIn(M, n)) THEN M ELSE MSet(M, n, k)
    [] call = "remove" -> MDel(M, n)
\* whether the documented precondition of the call holds in M
MPre(call, M, n, k) ==
  CASE call = "push" -> n \notin Dom(M)
    [] call = "decrease_key" -> n \in Dom(M) /\ le(k, KeyIn(M, n))
    [] call = "decrease_key_or_push" ->
         n \in Dom(M) => le(k, KeyIn(M, n))
    [] call \in {"update_key", "try_decrease_key", "remove"} -> n \in Dom(M)
    [] OTHER -> TRUE
Apply(call, h, n, k) ==
  CASE call = "push" -> push(h, n, k)
    [] call = "decrease_key" -> decrease_key(h, n, k)
    [] call = "update_key" -> update_key(h, n, k)
    [] call = "try_decrease_key" -> try_decrease_key(h, n, k)
    [] call = "decrease_key_or_push" -> decrease_key_or_push(h, n, k)
    [] call = "update_key_or_push" -> update_key_or_push(h, n, k)
    [] call = "try_decrease_key_or_push" -> try_decrease_key_or_push(h, n, k)
    [] call = "remove" -> remove(h, n)
RefinedCalls ==
  {"push", "decrease_key", "update_key", "try_decrease_key",
   "decrease_key_or_push", "update_key_or_push", "try_decrease_key_or_push",
   "remove"}
SeqRange(s) == {s[i] : i \in 1..Len(s)}

\* C6: the indexed and mapped heaps refine a finite map M from element to
\* key. In every reachable state the live pairs form a map M; key_of(e) is
\* M[e] (None outside M); every operation whose precondition holds takes M
\* to the map the documentation prescribes (pop deletes an entry of least
\* key, remove deletes the entry of e and returns its key); and draining
\* returns every entry of M once, in non-decreasing key order.
C6_RefinesMap ==
  (Ok /\ Tracked(Heap)) =>
    LET M == AbsMap(Heap)
        drained == Drain(Heap, MaxLen + 1)
    IN /\ IsMap(M)
       /\ \A n \in Admissible(Heap) :
            key_of(Heap, n).ret =
              (IF n \in Dom(M) THEN Some(NONE, KeyIn(M, n)) ELSE None)
       /\ \A call \in RefinedCalls, n \in Admissible(Heap), k \in Keys :
            MPre(call, M, n, k) =>
              /\ Apply(call, Heap, n, k).h.err = ""
              /\ AbsMap(Apply(call, Heap, n, k).h) = MAfter(call, M, n, k)
              /\ len(Apply(call, Heap, n, k).h)
                   = Cardinality(MAfter(call, M, n, k))
       /\ \A n \in Dom(M) : remove(Heap, n).ret = Some(NONE, KeyIn(M, n))
       /\ M # {} =>
            /\ <<pop(Heap).ret.n, pop(Heap).ret.k>> \in M
            /\ AbsMap(pop(Heap).h) = M \ {<<pop(Heap).ret.n, pop(Heap).ret.k>>}
       /\ Len(drained) = Cardinality(M)
       /\ {<<p.n, p.k>> : p \in SeqRange(drained)} = M
       /\ NonDecreasing(drained)

\* an indexed heap holding three elements with three different keys, the
\* largest key at the root's first child: a revise of any of them moves slots
C6_Witness ==
  /\ Ok /\ kind = "index" /\ len(Heap) = 3
  /\ Cardinality(LiveKeys(Heap)) = 3
  /\ gt(At(tree, offset(D) + 1).k, At(tree, offset(D) + 2).k)

\* the candidates push_then_pop may be given: any pair for the plain heap,
\* an element not in the queue for the indexed and mapped heaps
Candidate(h, n) == n \in Admissible(h) /\ (Tracked(h) => ~P_contains(h, n))

\* C7: push_then_pop(e, k) on H returns the element and the key that pushing
\* (e, k) into a clone of H and popping the clone returns, ties included, and
\* the pops that follow return the same pairs from both heaps.
C7_PushThenPopIsPushPop ==
  Ok =>
    \A n \in NodesOf(kind), k \in Keys :
      Candidate(Heap, n) =>
        /\ push_then_pop(Heap, n, k).ret = pop(push(Heap, n, k).h).ret
        /\ Drain(push_then_pop(Heap, n, k).h, MaxLen + 1)
             = Drain(pop(push(Heap, n, k).h).h, MaxLen + 1)

\* what C8 says of the fast path (k < root key) and what it says of the slow
\* path (k > root key) apart from the fate of the old root element
C8_Common(h, n, k) ==
  LET r == push_then_pop(h, n, k)
      root == At(h.tree, offset(h.d))
  IN /\ r.h.err = ""
     /\ lt(k, root.k) =>
          /\ r.ret = Some(n, k)
          /\ r.h.tree = h.tree
          /\ r.h.positions = h.positions
     /\ gt(k, root.k) =>
          /\ r.ret = Some(root.n, root.k)
          /\ Count(r.h, n, k) >= 1
          /\ len(r.h) = len(h)
          /\ HeapOrder(r.h)
          /\ Tracked(h) => TrackerAgreement(r.h)

\* C8 as stated: after the slow path the old root element is no longer in
\* the heap, whatever the heap.
C8_AsStated ==
  (Ok /\ ~is_empty(Heap)) =>
    \A n \in NodesOf(kind), k \in Keys :
      Candidate(Heap, n) =>
        /\ C8_Common(Heap, n, k)
        /\ gt(k, peek(Heap).k) =>
             peek(Heap).n \notin InTree(push_then_pop(Heap, n, k).h)

\* C8 as amended: after the slow path the live pairs are those before with
\* one occurrence of the old root pair replaced by (e, k); the old root
\* element is gone from the indexed and mapped heaps, whose elements are
\* distinct, while the plain heap may hold it in other pairs.
C8_PushThenPop ==
  (Ok /\ ~is_empty(Heap)) =>
    \A n \in NodesOf(kind), k \in Keys :
      Candidate(Heap, n) =>
        /\ C8_Common(Heap, n, k)
        /\ gt(k, peek(Heap).k) =>
             LET after == push_then_pop(Heap, n, k).h
                 root == peek(Heap)
             IN /\ \A x \in NodesOf(kind), y \in Keys :
                     Count(after, x, y) =
                       Count(Heap, x, y)
                       - (IF x = root.n /\ y = root.k THEN 1 ELSE 0)
                       + (IF x = n /\ y = k THEN 1 ELSE 0)
                /\ Tracked(Heap) => root.n \notin InTree(after)

\* a mapped heap of at least three elements and a candidate whose key is
\* above the root's and which is sifted down from the root
C8_Witness ==
  /\ Ok /\ kind = "map" /\ len(Heap) >= 3
  /\ \E n \in Nodes, k \in Keys :
       /\ Candidate(Heap, n)
       /\ gt(k, peek(Heap).k)
       /\ peek(push_then_pop(Heap, n, k).h).n # n

\* C9: decrease_key(e, k_new) on a present e with k_new <= the key of e
\* succeeds; afterwards key_of(e) = k_new, the elements of the heap and
\* len() are what they were, and every other element has the key it had.
C9_DecreaseKey ==
  (Ok /\ Tracked(Heap)) =>
    \A n \in InTracker(Heap), k \in Keys :
      le(k, key_of(Heap, n).ret.k) =>
        LET r == decrease_key(Heap, n, k)
        IN /\ r.h.err = "" /\ r.ret = Unit
           /\ key_of(r.h, n).ret = Some(NONE, k)
           /\ InTree(r.h) = InTree(Heap)
           /\ InTracker(r.h) = InTracker(Heap)
           /\ len(r.h) = len(Heap)
           /\ \A m \in Admissible(Heap) \ {n} :
                key_of(r.h, m).ret = key_of(Heap, m).ret

\* a mapped binary heap of four elements where decreasing the key of the
\* element at the deepest slot carries it up two levels, to the root
C9_Witness ==
  /\ Ok /\ kind = "map" /\ D = 2 /\ len(Heap) = 4
  /\ \E k \in Keys :
       /\ lt(k, At(tree, 4).k)
       /\ peek(decrease_key(Heap, At(tree, 4).n, k).h).n = At(tree, 4).n

GreaterKey == "decrease_key is called with a greater key"

\* C10: decrease_key(e, k_new) on a present e with k_new strictly greater
\* than the key of e fails with key-not-decreased, and the tree, the keys and
\* the tracker are then exactly what they were before the call.
C10_DecreaseKeyGreaterFails ==
  /\ (Ok /\ Tracked(Heap)) =>
       \A n \in InTracker(Heap), k \in Keys :
         gt(k, key_of(Heap, n).ret.k) =>
           LET r == decrease_key(Heap, n, k)
           IN /\ r.h.err = GreaterKey /\ r.ret = Panic
              /\ r.h.tree = tree
              /\ r.h.positions = positions
  /\ err = GreaterKey => HeapOrder(Heap) /\ TrackerAgreement(Heap)

\* the program stopped by that failure on an indexed heap of three elements
C10_Witness ==
  /\ err = GreaterKey /\ kind = "index" /\ len(Heap) = 3
  /\ Cardinality(LiveKeys(Heap)) >= 2

\* the multiset of live pairs is the same in both heaps
SamePairs(h1, h2) ==
  \A n \in NodesOf(h1.kind), k \in Keys : Count(h1, n, k) = Count(h2, n, k)

\* C11: decrease_key(e, k_new) with k_new equal to the key of e succeeds and
\* leaves the heap unchanged as a multiset of (element, key) pairs.
C11_DecreaseKeyEqual ==
  (Ok /\ Tracked(Heap)) =>
    \A n \in InTracker(Heap) :
      LET r == decrease_key(Heap, n, key_of(Heap, n).ret.k)
      IN /\ r.h.err = "" /\ r.ret = Unit
         /\ SamePairs(r.h, Heap)
         /\ len(r.h) = len(Heap)

\* an indexed heap of three elements one of which, below the root, has the
\* key of its parent: decrease_key with its own key compares equal keys
C11_Witness ==
  /\ Ok /\ kind = "index" /\ len(Heap) = 3
  /\ \E c \in Live(Heap) \ {offset(D)} :
       At(tree, c).k = At(tree, parent_of(D, c)).k

Tag(t) == Val(t, NONE, NONE)
\* every element other than n has in h2 the key it has in h1
OthersKeep(h1, h2, n) ==
  \A m \in Admissible(h1) \ {n} :
    /\ key_of(h2, m).ret = key_of(h1, m).ret
    /\ contains(h2, m).ret = contains(h1, m).ret

\* C12: update_key(e, k_new) on a present e returns Decreased exactly when
\* k_new is strictly less than the prior key of e and Increased otherwise
\* (equal keys included); afterwards key_of(e) = k_new, every other element
\* has the key it had and heap order holds.
C12_UpdateKey ==
  (Ok /\ Tracked(Heap)) =>
    \A n \in InTracker(Heap), k \in Keys :
      LET r == update_key(Heap, n, k)
          prior == key_of(Heap, n).ret.k
      IN /\ r.h.err = ""
         /\ (r.ret = Tag("Decreased")) <=> lt(k, prior)
         /\ (r.ret = Tag("Increased")) <=> ~lt(k, prior)
         /\ key_of(r.h, n).ret = Some(NONE, k)
         /\ OthersKeep(Heap, r.h, n)
         /\ len(r.h) = len(Heap)
         /\ HeapOrder(r.h)
         /\ TrackerAgreement(r.h)

\* a mapped binary heap of four elements whose root, given a larger key,
\* sinks two levels to the deepest slot
C12_Witness ==
  /\ Ok /\ kind = "map" /\ D = 2 /\ len(Heap) = 4
  /\ \E k \in Keys :
       /\ gt(k, peek(Heap).k)
       /\ At(update_key(Heap, peek(Heap).n, k).h.tree, 4).n = peek(Heap).n

\* C13: try_decrease_key(e, k) on a present e returns Decreased and sets
\* key_of(e) = k exactly when k is strictly less than the prior key;
\* otherwise it returns Unchanged and the tree and the tracker are what they
\* were. It does not fail with key-not-decreased.
C13_TryDecreaseKey ==
  (Ok /\ Tracked(Heap)) =>
    \A n \in InTracker(Heap), k \in Keys :
      LET r == try_decrease_key(Heap, n, k)
          prior == key_of(Heap, n).ret.k
      IN /\ r.h.err = ""
         /\ (r.ret = Tag("Decreased")) <=> lt(k, prior)
         /\ (r.ret = Tag("Unchanged")) <=> ~lt(k, prior)
         /\ lt(k, prior) =>
              /\ key_of(r.h, n).ret = Some(NONE, k)
              /\ OthersKeep(Heap, r.h, n)
         /\ ~lt(k, prior) =>
              /\ r.h.tree = tree
              /\ r.h.positions = positions

\* an indexed heap of three elements, one with a key that has keys below it
\* and keys above it: both answers of try_decrease_key are possible
C13_Witness ==
  /\ Ok /\ kind = "index" /\ len(Heap) = 3
  /\ \E n \in InTracker(Heap), k1, k2 \in Keys :
       /\ try_decrease_key(Heap, n, k1).ret = Tag("Decreased")
       /\ try_decrease_key(Heap, n, k2).ret = Tag("Unchanged")
       /\ gt(k2, key_of(Heap, n).ret.k)

AbsentMsg(call) ==
  CASE call = "decrease_key" ->
         "cannot decrease key of a node that is not on the queue"
    [] call = "update_key" ->
         "cannot update key of a node that is not on the queue"
    [] call = "try_decrease_key" -> "node must exist on the heap."
    [] call = "remove" -> "cannot remove a node that is not on the queue"
NeedPresent == {"decrease_key", "update_key", "try_decrease_key", "remove"}

\* C15: decrease_key, update_key, try_decrease_key and remove fail when the
\* element is not in the queue (with the absent-element message of the call
\* for an element the heap admits, with an out-of-bounds index for an
\* identifier past the index bound), and the tree and the tracker are then
\* what they were before the call.
C15_AbsentFails ==
  /\ (Ok /\ Tracked(Heap)) =>
       \A call \in NeedPresent, n \in NodesOf(kind), k \in Keys :
         ~Present(n) =>
           LET r == Apply(call, Heap, n, k)
           IN /\ r.ret = Panic
              /\ r.h.err =
                   (IF P_oob(Heap, n) THEN "index out of bounds"
                    ELSE AbsentMsg(call))
              /\ r.h.tree = tree
              /\ r.h.positions = positions
  /\ (\E call \in NeedPresent : err = AbsentMsg(call)) =>
       HeapOrder(Heap) /\ TrackerAgreement(Heap)

\* the program stopped by try_decrease_key of an absent element on a mapped
\* heap of three elements
C15_Witness ==
  /\ err = AbsentMsg("try_decrease_key") /\ kind = "map" /\ len(Heap) = 3

\* C16: decrease_key_or_push(e, k) returns Pushed exactly when e was absent
\* (then e is in the queue with key k and len() is one more); it returns
\* Decreased when e was present with a key >= k (then key_of(e) = k and
\* len() is what it was); it fails when e was present with a key < k.
C16_DecreaseKeyOrPush ==
  (Ok /\ Tracked(Heap)) =>
    \A n \in Admissible(Heap), k \in Keys :
      LET r == decrease_key_or_push(Heap, n, k)
          prior == key_of(Heap, n).ret.k
      IN /\ (r.ret = Tag("Pushed")) <=> ~P_contains(Heap, n)
         /\ ~P_contains(Heap, n) =>
              /\ r.h.err = ""
              /\ contains(r.h, n).ret = Bool(TRUE)
              /\ key_of(r.h, n).ret = Some(NONE, k)
              /\ len(r.h) = len(Heap) + 1
              /\ OthersKeep(Heap, r.h, n)
         /\ (P_contains(Heap, n) /\ ge(prior, k)) =>
              /\ r.ret = Tag("Decreased")
              /\ key_of(r.h, n).ret = Some(NONE, k)
              /\ len(r.h) = len(Heap)
              /\ OthersKeep(Heap, r.h, n)
         /\ (P_contains(Heap, n) /\ lt(prior, k)) =>
              /\ r.ret = Panic
              /\ r.h.err = GreaterKey

\* an indexed heap of two elements: one identifier is absent, and a present
\* one has a key with keys below it and keys above it
C16_Witness ==
  /\ Ok /\ kind = "index" /\ len(Heap) = 2
  /\ \E n \in InTracker(Heap), k1, k2 \in Keys :
       /\ lt(k1, key_of(Heap, n).ret.k)
       /\ gt(k2, key_of(Heap, n).ret.k)
       /\ decrease_key_or_push(Heap, n, k1).ret = Tag("Decreased")
  /\ \E n \in Admissible(Heap), k \in Keys :
       decrease_key_or_push(Heap, n, k).ret = Tag("Pushed")

\* C17: update_key_or_push(e, k) returns Pushed exactly when e was absent,
\* Decreased exactly when e was present with a prior key > k, Increased
\* exactly when e was present with a prior key <= k; in the three cases
\* key_of(e) = k afterwards and no other element's key changes.
C17_UpdateKeyOrPush ==
  (Ok /\ Tracked(Heap)) =>
    \A n \in Admissible(Heap), k \in Keys :
      LET r == update_key_or_push(Heap, n, k)
          prior == key_of(Heap, n).ret.k
      IN /\ r.h.err = ""
         /\ (r.ret = Tag("Pushed")) <=> ~P_contains(Heap, n)
         /\ (r.ret = Tag("Decreased")) <=>
              (P_contains(Heap, n) /\ gt(prior, k))
         /\ (r.ret = Tag("Increased")) <=>
              (P_contains(Heap, n) /\ le(prior, k))
         /\ key_of(r.h, n).ret = Some(NONE, k)
         /\ OthersKeep(Heap, r.h, n)

\* a mapped heap of three elements and an absent one, a present element
\* having a key with keys below it and keys above it: the three answers
C17_Witness ==
  /\ Ok /\ kind = "map" /\ len(Heap) = 3
  /\ \E n, m \in Admissible(Heap), k1, k2 \in Keys :
       /\ update_key_or_push(Heap, n, k1).ret = Tag("Decreased")
       /\ update_key_or_push(Heap, n, k2).ret = Tag("Increased")
       /\ gt(k2, key_of(Heap, n).ret.k)
       /\ update_key_or_push(Heap, m, k1).ret = Tag("Pushed")

\* C18: try_decrease_key_or_push(e, k) returns Pushed exactly when e was
\* absent (then key_of(e) = k), Decreased exactly when e was present with a
\* prior key > k (then key_of(e) = k), Unchanged exactly when e was present
\* with a prior key <= k, and then the tree and the tracker are what they
\* were.
C18_TryDecreaseKeyOrPush ==
  (Ok /\ Tracked(Heap)) =>
    \A n \in Admissible(Heap), k \in Keys :
      LET r == try_decrease_key_or_push(Heap, n, k)
          prior == key_of(Heap, n).ret.k
      IN /\ r.h.err = ""
         /\ (r.ret = Tag("Pushed")) <=> ~P_contains(Heap, n)
         /\ (r.ret = Tag("Decreased")) <=>
              (P_contains(Heap, n) /\ gt(prior, k))
         /\ (r.ret = Tag("Unchanged")) <=>
              (P_contains(Heap, n) /\ le(prior, k))
         /\ r.ret \in {Tag("Pushed"), Tag("Decreased")} =>
              /\ key_of(r.h, n).ret = Some(NONE, k)
              /\ OthersKeep(Heap, r.h, n)
         /\ r.ret = Tag("Unchanged") =>
              /\ r.h.tree = tree
              /\ r.h.positions = positions

\* an indexed heap of two elements where the three answers are possible,
\* Unchanged both for an equal and for a greater key
C18_Witness ==
  /\ Ok /\ kind = "index" /\ len(Heap) = 2
  /\ \E n, m \in Admissible(Heap), k1, k2 \in Keys :
       /\ try_decrease_key_or_push(Heap, n, k1).ret = Tag("Decreased")
       /\ try_decrease_key_or_push(Heap, n, k2).ret = Tag("Unchanged")
       /\ gt(k2, key_of(Heap, n).ret.k)
       /\ try_decrease_key_or_push(Heap, n, key_of(Heap, n).ret.k).ret
            = Tag("Unchanged")
       /\ try_decrease_key_or_push(Heap, m, k1).ret = Tag("Pushed")

\* C19: for every element the heap admits and every key, in every reachable
\* state, update_key_or_push and try_decrease_key_or_push complete without a
\* failure, and decrease_key_or_push fails only when the element is present
\* with a key strictly less than the given one (never with absent-element).
C19_OrPushNeverAbsent ==
  (Ok /\ Tracked(Heap)) =>
    \A n \in Admissible(Heap), k \in Keys :
      /\ update_key_or_push(Heap, n, k).h.err = ""
      /\ update_key_or_push(Heap, n, k).ret # Panic
      /\ try_decrease_key_or_push(Heap, n, k).h.err = ""
      /\ try_decrease_key_or_push(Heap, n, k).ret # Panic
      /\ decrease_key_or_push(Heap, n, k).h.err # "" =>
           /\ P_contains(Heap, n)
           /\ lt(key_of(Heap, n).ret.k, k)
           /\ decrease_key_or_push(Heap, n, k).h.err = GreaterKey

\* an indexed heap of two elements: the third admissible identifier is
\* absent and the combined calls push it, and a present element has a key
\* below the largest, the one case where decrease_key_or_push fails
C19_Witness ==
  /\ Ok /\ kind = "index" /\ len(Heap) = 2
  /\ \E n \in Admissible(Heap) \ InTracker(Heap) :
       /\ update_key_or_push(Heap, n, MaxKey).ret = Tag("Pushed")
       /\ try_decrease_key_or_push(Heap, n, MaxKey).ret = Tag("Pushed")
       /\ decrease_key_or_push(Heap, n, MaxKey).ret = Tag("Pushed")
  /\ \E m \in InTracker(Heap) :
       decrease_key_or_push(Heap, m, MaxKey).h.err = GreaterKey

\* C20: in every reachable state of an indexed or mapped heap and for every
\* element e the heap admits, contains(e) is true exactly when the calls so
\* far put e in (push, a combined call that pushed, push_then_pop that kept
\* its candidate) and none since took it out (pop, remove, displacement by
\* push_then_pop, clear); key_of(e) is Some(k) exactly then, k being the key
\* last given to e.
C20_ContainsKeyOfHistory ==
  (Ok /\ Tracked(Heap)) =>
    \A e \in Admissible(Heap) :
      /\ contains(Heap, e).ret = Bool(assigned[e] # NONE)
      /\ key_of(Heap, e).ret =
           (IF assigned[e] # NONE THEN Some(NONE, assigned[e]) ELSE None)

\* a mapped heap of three elements with three different keys and one
\* element that is not in the queue
C20_Witness ==
  /\ Ok /\ kind = "map" /\ len(Heap) = 3
  /\ Cardinality({assigned[e] : e \in Nodes} \ {NONE}) = 3
  /\ \E e \in Nodes : assigned[e] = NONE /\ contains(Heap, e).ret = Bool(FALSE)

\* the number of live slots that hold element n
Slots(h, n) == Cardinality({i \in Live(h) : At(h.tree, i).n = n})
OrPushCalls ==
  {"decrease_key_or_push", "update_key_or_push", "try_decrease_key_or_push"}

\* C21: set discipline. In every state an indexed or mapped heap reaches
\* without a failure no element occupies two live slots, and a combined
\* revise-or-push call on an element already present leaves it in exactly one
\* slot.
C21_SetDiscipline ==
  (Ok /\ Tracked(Heap)) =>
    /\ \A n \in Nodes : Slots(Heap, n) <= 1
    /\ \A n \in Nodes : Slots(Heap, n) = CopiesIn(<<n, assigned[n]>>, pairs)
    /\ \A call \in OrPushCalls, n \in InTracker(Heap), k \in Keys :
         LET r == Apply(call, Heap, n, k)
         IN /\ Slots(r.h, n) = 1
            /\ len(r.h) = len(Heap)

\* an indexed heap holding every identifier it admits: each combined call
\* meets an element already present
C21_Witness ==
  /\ Ok /\ kind = "index" /\ len(Heap) = IndexBound
  /\ InTracker(Heap) = Admissible(Heap)
  /\ \E n \in InTracker(Heap) :
       try_decrease_key_or_push(Heap, n, 1).ret = Tag("Decreased")

\* C22: indexed heap bound. push of identifier index_bound - 1 succeeds,
\* push of an identifier >= index_bound fails and changes nothing; every
\* element of the tree has an identifier < index_bound, and index_bound()
\* is the value given at construction in every reachable state.
C22_IndexBound ==
  kind = "index" =>
    /\ index_bound(Heap) = IndexBound
    /\ Ok =>
         /\ \A i \in Live(Heap) : At(tree, i).n < index_bound(Heap)
         /\ \A k \in Keys :
              /\ ~P_contains(Heap, IndexBound - 1) =>
                   /\ push(Heap, IndexBound - 1, k).h.err = ""
                   /\ contains(push(Heap, IndexBound - 1, k).h,
                               IndexBound - 1).ret = Bool(TRUE)
              /\ \A n \in {IndexBound, IndexBound + 1} :
                   /\ push(Heap, n, k).ret = Panic
                   /\ push(Heap, n, k).h.err = "index out of bounds"
                   /\ push(Heap, n, k).h.tree = tree
                   /\ push(Heap, n, k).h.positions = positions

\* an indexed heap of two elements with the largest identifier it admits
\* at the root
C22_Witness ==
  /\ Ok /\ kind = "index" /\ len(Heap) = 2
  /\ P_contains(Heap, IndexBound - 1)
  /\ peek(Heap).n = IndexBound - 1

\* C23: clear() from any reachable state leaves what a freshly constructed
\* heap of the type shows: len() = 0, peek() = None, an empty slice, no
\* element contained, no key, the index bound it had; every element can be
\* pushed again; a second clear() changes nothing.
C23_Clear ==
  Ok =>
    LET r == clear(Heap)
    IN /\ r.h.err = "" /\ r.ret = Unit
       /\ len(r.h) = 0
       /\ is_empty(r.h)
       /\ peek(r.h) = None
       /\ as_slice(r.h) = <<>>
       /\ r.h.positions = Heap_new(D, kind, At(tree, 0)).positions
       /\ Len(r.h.tree) = Len(Heap_new(D, kind, At(tree, 0)).tree)
       /\ Tracked(Heap) =>
            \A e \in Admissible(Heap) :
              /\ contains(r.h, e).ret = Bool(FALSE)
              /\ key_of(r.h, e).ret = None
       /\ kind = "index" => index_bound(r.h) = index_bound(Heap)
       /\ \A e \in Admissible(Heap), k \in Keys :
            /\ push(r.h, e, k).h.err = ""
            /\ peek(push(r.h, e, k).h) = Some(e, k)
            /\ len(push(r.h, e, k).h) = 1
       /\ clear(r.h).h = r.h

\* a binary indexed heap holding every identifier it admits, which clear()
\* empties down to its sentinel slot
C23_Witness ==
  /\ Ok /\ kind = "index" /\ D = 2 /\ len(Heap) = IndexBound
  /\ clear(Heap).h.tree # tree
  /\ Len(clear(Heap).h.tree) = 1

\* the bag of the members of a sequence of slots
BagOfSeq(s) ==
  [p \in {<<s[i].n, s[i].k>> : i \in 1..Len(s)} |->
     Cardinality({i \in 1..Len(s) : <<s[i].n, s[i].k>> = p})]

\* C24: in every reachable state and for every D, len() is the number of
\* pairs put in and not taken out, as_slice() and iteration hold exactly
\* those pairs (no sentinel slot), is_empty() is len() = 0; push adds one to
\* len(), a pop or remove that succeeds takes one, and the revise calls and
\* push_then_pop leave it as it is.
C24_LenAndSlice ==
  Ok =>
    /\ len(Heap) = BagCardinality(pairs)
    /\ Len(as_slice(Heap)) = len(Heap)
    /\ BagOfSeq(as_slice(Heap)) = pairs
    /\ into_iter(Heap) = as_slice(Heap)
    /\ is_empty(Heap) <=> (len(Heap) = 0)
    /\ \A n \in Admissible(Heap), k \in Keys :
         /\ Candidate(Heap, n) =>
              /\ len(push(Heap, n, k).h) = len(Heap) + 1
              /\ len(push_then_pop(Heap, n, k).h) = len(Heap)
         /\ (Tracked(Heap) /\ P_contains(Heap, n)) =>
              /\ len(remove(Heap, n).h) = len(Heap) - 1
              /\ len(update_key(Heap, n, k).h) = len(Heap)
              /\ len(try_decrease_key(Heap, n, k).h) = len(Heap)
              /\ le(k, key_of(Heap, n).ret.k) =>
                   len(decrease_key(Heap, n, k).h) = len(Heap)
    /\ ~is_empty(Heap) =>
         /\ len(pop(Heap).h) = len(Heap) - 1
         /\ len(pop_node(Heap).h) = len(Heap) - 1
         /\ len(pop_key(Heap).h) = len(Heap) - 1

\* a plain binary heap of five pairs behind its sentinel slot, the sentinel
\* holding a pair that is not among them
C24_Witness ==
  /\ Ok /\ kind = "none" /\ D = 2 /\ len(Heap) = MaxLen
  /\ Len(tree) = MaxLen + 1
  /\ CopiesIn(<<At(tree, 0).n, At(tree, 0).k>>, pairs) = 0

\* C25: on an empty heap pop(), pop_node(), pop_key() and peek() return
\* nothing and the heap stays empty; push_then_pop(e, k) returns (e, k) and
\* the heap stays empty, e not being recorded by the tracker.
C25_EmptyBoundaries ==
  (Ok /\ is_empty(Heap)) =>
    /\ pop(Heap) = Res(Heap, None)
    /\ pop_node(Heap) = Res(Heap, None)
    /\ pop_key(Heap) = Res(Heap, None)
    /\ peek(Heap) = None
    /\ \A e \in Admissible(Heap), k \in Keys :
         LET r == push_then_pop(Heap, e, k)
         IN /\ r.ret = Some(e, k)
            /\ r.h = Heap
            /\ is_empty(r.h)
            /\ Tracked(Heap) => contains(r.h, e).ret = Bool(FALSE)

\* an empty binary mapped heap: one sentinel slot, whose pair has the least
\* key, and nothing recorded
C25_Witness ==
  /\ Ok /\ is_empty(Heap) /\ kind = "map" /\ D = 2
  /\ Len(tree) = 1 /\ At(tree, 0).k = 1
  /\ DOMAIN positions = {}

\* C27: the plain heap is a multiset. Any element can be pushed again, with
\* the key it has or another: each push adds one pair and one to len(); the
\* pairs popped until the heap is empty are the pairs pushed and not yet
\* popped, each once per push, in non-decreasing key order.
C27_PlainMultiset ==
  (Ok /\ kind = "none") =>
    /\ \A n \in PlainNodes, k \in Keys :
         LET r == push(Heap, n, k)
         IN /\ r.h.err = "" /\ r.ret = Unit
            /\ len(r.h) = len(Heap) + 1
            /\ \A x \in PlainNodes, y \in Keys :
                 Count(r.h, x, y) =
                   Count(Heap, x, y) + (IF x = n /\ y = k THEN 1 ELSE 0)
    /\ BagOfSeq(Drain(Heap, MaxLen + 1)) = pairs
    /\ Len(Drain(Heap, MaxLen + 1)) = len(Heap)
    /\ NonDecreasing(Drain(Heap, MaxLen + 1))

\* a plain heap where one element was pushed four times, twice with the same
\* key, and is live in four pairs
C27_Witness ==
  /\ Ok /\ kind = "none" /\ len(Heap) = 4
  /\ \E n \in PlainNodes, k1, k2 \in Keys :
       /\ k1 # k2
       /\ CopiesIn(<<n, k1>>, pairs) = 2
       /\ CopiesIn(<<n, k2>>, pairs) >= 1
       /\ Slots(Heap, n) = 4

\* C29: for every element that is not in the queue, identifiers at or past
\* the index bound of an indexed heap included, contains(e) returns false
\* and key_of(e) returns None, and neither fails.
C29_AbsentQueriesTotal ==
  (Ok /\ Tracked(Heap)) =>
    \A e \in Nodes \cup {IndexBound + 1} :
      ~Present(e) =>
        /\ contains(Heap, e).h.err = ""
        /\ contains(Heap, e).ret = Bool(FALSE)
        /\ key_of(Heap, e).h.err = ""
        /\ key_of(Heap, e).ret = None

\* C28: incomparable keys do not corrupt the tracker. With a key that is
\* neither <, = nor > any key among the keys given, after any sequence of
\* calls none of which failed, the tracker of an indexed or mapped heap
\* agrees with the tree and no element is in two live slots (heap order and
\* the order of pops are not promised).
C28_NaNKeepsTracker ==
  (Ok /\ Tracked(Heap)) =>
    /\ TrackerAgreement(Heap)
    /\ \A n \in Nodes : Slots(Heap, n) <= 1
    /\ len(Heap) = Cardinality(InTracker(Heap))

\* a mapped binary heap of four elements, one with the incomparable key,
\* in which a key sits above a strictly smaller one and the pops come out
\* of order
C28_Witness ==
  /\ Ok /\ kind = "map" /\ D = 2 /\ len(Heap) = 4
  /\ NaN \in LiveKeys(Heap)
  /\ \E c \in Live(Heap) \ {offset(D)} :
       gt(At(tree, parent_of(D, c)).k, At(tree, c).k)
  /\ \E i \in 1..3 :
       gt(Drain(Heap, MaxLen + 1)[i].k, Drain(Heap, MaxLen + 1)[i + 1].k)

\* what two heaps show alike: length, front, slice, membership and keys
SameObservable(h1, h2) ==
  /\ len(h1) = len(h2)
  /\ peek(h1) = peek(h2)
  /\ as_slice(h1) = as_slice(h2)
  /\ Tracked(h1) =>
       \A e \in Admissible(h1) :
         /\ contains(h1, e).ret = contains(h2, e).ret
         /\ key_of(h1, e).ret = key_of(h2, e).ret

\* C26: a clone shows what the heap shows when it is made (len, peek,
\* as_slice, contains, key_of), and the two are independent: a call on the
\* clone leaves the tree and the tracker of the original as they were, and a
\* call on the original leaves those of the clone as they were.
C26_CloneIndependent ==
  [][/\ (twin = NoTwin /\ twin' # NoTwin) =>
          /\ SameObservable(TwinHeap', Heap)
          /\ tree' = tree /\ positions' = positions
     /\ (twin # NoTwin /\ twin' # NoTwin) =>
          /\ twin'.calls # twin.calls =>
               tree' = tree /\ positions' = positions
          /\ twin'.calls = twin.calls =>
               /\ TwinHeap'.tree = TwinHeap.tree
               /\ TwinHeap'.positions = TwinHeap.positions]_vars

\* a mapped binary heap and its clone, each of two elements, that have gone
\* different ways since the clone was made: other elements, another front
C26_Witness ==
  /\ Ok /\ twin # NoTwin /\ kind = "map" /\ D = 2
  /\ len(Heap) = 2 /\ len(TwinHeap) = 2
  /\ InTree(Heap) \cap InTree(TwinHeap) = {}
  /\ peek(Heap).k # peek(TwinHeap).k

\* the search from `start` for `goal` has returned `result`
Returned(start, goal, result) ==
  dj.pc = "done" /\ dj.start = start /\ dj.goal = goal => dj.result = result

\* C30: the shortest path search on the mapped binary heap, relaxing every
\* edge with try_decrease_key_or_push and returning when the goal is popped,
\* returns on this graph cost 1 from 0 to 1, 3 from 0 to 3, 7 from 3 to 0,
\* 5 from 0 to 4 and None from 4 to 0, and no call of it fails.
C30_Dijkstra ==
  /\ Returned(0, 1, Val("Some", NONE, 1))
  /\ Returned(0, 3, Val("Some", NONE, 3))
  /\ Returned(3, 0, Val("Some", NONE, 7))
  /\ Returned(0, 4, Val("Some", NONE, 5))
  /\ Returned(4, 0, None)
  /\ dj.pc # "panic"

\* the search from 0 for 4 has returned, having set the distance of every
\* node with the cost of a relaxed edge, and left nodes 0 and 2 in the heap
C30_Witness ==
  /\ dj.pc = "done" /\ dj.start = 0 /\ dj.goal = 4
  /\ dj.result = Val("Some", NONE, 5)
  /\ \A v \in Vertices : dj.dist[v] # usize_MAX
  /\ InTree(Heap) = {0, 2}

\* C31: on a non-empty heap pop returns the pair peek returns, pop_node its
\* element and pop_key its key, none of them fails, and the three leave the
\* same tree and the same tracker.
C31_PopIsPeek ==
  Ok /\ len(Heap) > 0 =>
    /\ pop(Heap).ret = peek(Heap)
    /\ pop_node(Heap).ret = Some(peek(Heap).n, NONE)
    /\ pop_key(Heap).ret = Some(NONE, peek(Heap).k)
    /\ pop(Heap).h.err = ""
    /\ pop_node(Heap).h = pop(Heap).h
    /\ pop_key(Heap).h = pop(Heap).h

\* an indexed heap of three elements whose last pair, moved to the root by
\* the pop, is sifted down from there
C31_Witness ==
  /\ Ok /\ kind = "index" /\ len(Heap) = 3
  /\ pop_node(Heap).ret = Some(peek(Heap).n, NONE)
  /\ peek(pop_node(Heap).h).n # At(tree, Len(tree) - 1).n

\* the children of slot p that are present
ChildrenOf(h, p) ==
  {c \in left_child_of(h.d, p)..(left_child_of(h.d, p) + h.d - 1) :
     c < Len(h.tree)}
\* the lowest slot of C among those that hold the least key of C
LeftmostMin(h, C) ==
  CHOOSE c \in C :
    /\ \A x \in C : At(h.tree, c).k <= At(h.tree, x).k
    /\ \A x \in C : At(h.tree, x).k = At(h.tree, c).k => c <= x
\* the tree after `node` is carried down from slot p as the claim words it
RECURSIVE SiftDownRef(_, _, _)
SiftDownRef(h, p, node) ==
  IF ChildrenOf(h, p) = {} THEN [h.tree EXCEPT ![p + 1] = node]
  ELSE LET c == LeftmostMin(h, ChildrenOf(h, p))
       IN IF At(h.tree, c).k < node.k
            THEN SiftDownRef([h EXCEPT !.tree[p + 1] = At(h.tree, c)],
                             c, node)
          ELSE [h.tree EXCEPT ![p + 1] = node]

\* C32: with any key written to any slot of a reachable heap, heapify_down
\* from that slot exchanges the carried pair, step after step, with the
\* lowest-indexed child that holds the least key among the children present,
\* only while that key is strictly less than the carried key, and stops at
\* a slot with no children or with no strictly smaller child.
C32_SiftDownChild ==
  Ok =>
    \A p \in offset(D)..(Len(tree) - 1), k \in Keys :
      LET h1 == set_key(Heap, p, k)
      IN /\ heapify_down(h1, p).err = ""
         /\ heapify_down(h1, p).tree = SiftDownRef(h1, p, At(h1.tree, p))

\* a binary heap of five pairs: the children of the root hold equal keys,
\* and so do the children of the left one; the root, given the largest key,
\* goes down two levels, each time to the left
C32_Witness ==
  /\ Ok /\ D = 2 /\ len(Heap) = 5
  /\ At(tree, 2).k = At(tree, 3).k
  /\ At(tree, 4).k = At(tree, 5).k /\ At(tree, 4).k < MaxKey
  /\ LET h1 == set_key(Heap, offset(D), MaxKey)
     IN /\ At(heapify_down(h1, offset(D)).tree, 4).k = MaxKey
        /\ At(heapify_down(h1, offset(D)).tree, offset(D)) = At(tree, 2)
        /\ At(heapify_down(h1, offset(D)).tree, 2) = At(tree, 4)

\* the tree after `node` is carried up from slot c as the claim words it
RECURSIVE SiftUpRef(_, _, _)
SiftUpRef(h, c, node) ==
  IF c = offset(h.d) THEN [h.tree EXCEPT ![c + 1] = node]
  ELSE LET parent == parent_of(h.d, c)
       IN IF node.k < At(h.tree, parent).k
            THEN SiftUpRef([h EXCEPT !.tree[c + 1] = At(h.tree, parent)],
                           parent, node)
          ELSE [h.tree EXCEPT ![c + 1] = node]

\* C33: sift up is strict. With any key written to any slot of a reachable
\* heap, heapify_up from that slot moves the pair above its parent only
\* while its key is strictly less than the parent's; so a push with a key
\* greater than or equal to the least key leaves peek() as it was, an equal
\* key included, and a push with a strictly smaller key makes the pushed
\* pair the one peek() returns.
C33_SiftUpStrict ==
  Ok =>
    /\ \A p \in Live(Heap), k \in Keys :
         LET h1 == set_key(Heap, p, k)
         IN /\ heapify_up(h1, p).err = ""
            /\ heapify_up(h1, p).tree = SiftUpRef(h1, p, At(h1.tree, p))
    /\ ~is_empty(Heap) =>
         \A n \in NodesOf(kind), k \in Keys :
           Candidate(Heap, n) =>
             /\ push(Heap, n, k).h.err = ""
             /\ k >= peek(Heap).k =>
                  peek(push(Heap, n, k).h) = peek(Heap)
             /\ k < peek(Heap).k =>
                  peek(push(Heap, n, k).h) = Some(n, k)

\* a binary heap of three pairs with the least key at the root and a
\* larger one below it: another element pushed with the least key goes
\* above its parent and stays below the root
C33_Witness ==
  /\ Ok /\ D = 2 /\ len(Heap) = 3
  /\ At(tree, 1).k = 1 /\ At(tree, 2).k > 1
  /\ \E n \in NodesOf(kind) :
       /\ Candidate(Heap, n) /\ n # At(tree, 1).n
       /\ peek(push(Heap, n, 1).h) = peek(Heap)
       /\ At(push(Heap, n, 1).h.tree, 2) = [n |-> n, k |-> 1]
       /\ At(push(Heap, n, 1).h.tree, 4) = At(tree, 2)

\* C34: pop on an indexed or mapped heap of two or more elements leaves the
\* element of the last slot recorded at the slot that holds it afterwards,
\* also when it stays at the root because no child has a smaller key, and
\* the popped element absent from the tracker; pop on a heap of one element
\* leaves the tracker empty.
C34_PopNotifiesTracker ==
  (Ok /\ Tracked(Heap) /\ ~is_empty(Heap)) =>
    LET r == pop(Heap).h
        popped == At(tree, offset(D)).n
        moved == At(tree, Len(tree) - 1).n
    IN /\ r.err = ""
       /\ ~P_contains(r, popped)
       /\ len(Heap) >= 2 =>
            /\ P_contains(r, moved)
            /\ P_position_of(r, moved) \in Live(r)
            /\ At(r.tree, P_position_of(r, moved)).n = moved
       /\ len(Heap) = 1 => InTracker(r) = {}

\* an indexed binary heap of three elements whose last element has a key
\* not greater than its sibling's: the pop moves it to the root, where it
\* stays and where the tracker has it
C34_Witness ==
  /\ Ok /\ kind = "index" /\ D = 2 /\ len(Heap) = 3
  /\ At(tree, 3).k <= At(tree, 2).k
  /\ At(pop(Heap).h.tree, offset(D)) = At(tree, 3)
  /\ P_position_of(pop(Heap).h, At(tree, 3).n) = offset(D)
  /\ P_position_of(Heap, At(tree, 3).n) = 3

\* the heap with the pair of its last slot copied into slot s and the tree
\* truncated by one, before anything is sifted
Refilled(h, s) ==
  [h EXCEPT !.tree = SubSeq([h.tree EXCEPT ![s + 1] =
                               At(h.tree, Len(h.tree) - 1)],
                            1, Len(h.tree) - 1)]
\* the tracker without element n, every other entry as it is
TrackerWithout(h, n) ==
  [x \in DOMAIN h.positions \ {n} |-> h.positions[x]]
\* the mapped tracker records the elements of the live slots, each at the
\* slot that holds it
MapAgreement(h) ==
  /\ DOMAIN h.positions = InTree(h)
  /\ \A n \in DOMAIN h.positions :
       h.positions[n] \in Live(h) /\ At(h.tree, h.positions[n]).n = n

\* C35: remove of the element of the final live slot only truncates the
\* tree and takes the element out of the tracker; remove of another slot s
\* copies the last pair into s, truncates, and sifts the pair at s up when s
\* has a parent with a strictly greater key and down otherwise; heap order
\* and tracker agreement hold afterwards, also when the last pair comes
\* from another subtree than s.
C35_RemoveReheapify ==
  Ok =>
    \A n \in RemoveNodes :
      P_contains(Heap, n) =>
        LET s == P_position_of(Heap, n)
            last == Len(tree) - 1
            r == remove(Heap, n).h
            h4 == Refilled(Heap, s)
        IN /\ r.err = ""
           /\ s = last =>
                /\ r.tree = SubSeq(tree, 1, last)
                /\ r.positions = TrackerWithout(Heap, n)
           /\ s # last =>
                /\ r.tree =
                     IF s > offset(D)
                        /\ At(h4.tree, s).k < At(h4.tree, parent_of(D, s)).k
                       THEN SiftUpRef(h4, s, At(h4.tree, s))
                     ELSE SiftDownRef(h4, s, At(h4.tree, s))
                /\ HeapOrder(r)
                /\ MapAgreement(r)

\* a mapped binary heap of six elements: the element removed is in a slot
\* below the left child of the root, the last pair is below the right
\* child and has a key strictly less than the left child's, so it is sifted
\* up from the slot it is copied to
C35_Witness ==
  /\ Ok /\ len(Heap) = 6
  /\ At(tree, 6).k < At(tree, 2).k
  /\ parent_of(D, 6) = 3 /\ parent_of(D, 4) = 2
  /\ LET r == remove(Heap, At(tree, 4).n).h
     IN /\ r.err = ""
        /\ At(r.tree, 2) = At(tree, 6)
        /\ At(r.tree, 4) = At(tree, 2)
        /\ P_position_of(r, At(tree, 6).n) = 2

\* the physical slot of logical index i, and the logical index of slot p
Phys(i) == i + offset(D)
Logical(p) == p - offset(D)

\* C36: offset(D) is D - 1 for D in {2, 4, 8, 16, 32, 64} and 0 for every
\* other D; left_child_of(Phys(i)) = Phys(D * i + 1) for every logical index
\* i; parent_of(Phys(c)) = Phys((c - 1) \div D) for every logical index
\* c >= 1; and parent_of(left_child_of(p) + j) = p for every j in 0..D-1.
C36_Arithmetic ==
  /\ offset(D) = IF D \in SpecialD THEN D - 1 ELSE 0
  /\ ar.op = "left_child_of" =>
       /\ ar.res = Phys(D * Logical(ar.arg) + 1)
       /\ \A j \in 0..(D - 1) : parent_of(D, ar.res + j) = ar.arg
  /\ ar.op = "parent_of" =>
       ar.res = Phys((Logical(ar.arg) - 1) \div D)

\* for D = 4, whose slots start at 3: the left child of slot 5 (logical 2)
\* is slot 12 (logical 9)
C36_Witness ==
  D = 4 /\ ar = [op |-> "left_child_of", arg |-> 5, res |-> 12]

\* the failures of the tracker's remove and update_position_of and of the
\* debug assertion of remove_and_heapify
TrackerFaults ==
  {"removing an absent node", "updating position of an absent node",
   "node must exist", "assertion failed: offset == starting_position"}
\* the precondition of a public call on element n with key k
PreHolds(call, h, n, k) ==
  CASE call = "push" -> Candidate(h, n)
    [] call = "decrease_key" ->
         n \in Admissible(h) /\ P_contains(h, n)
         /\ k <= key_of(h, n).ret.k
    [] call \in {"update_key", "try_decrease_key", "remove"} ->
         n \in Admissible(h) /\ P_contains(h, n)
    [] call = "decrease_key_or_push" ->
         n \in Admissible(h)
         /\ (P_contains(h, n) => k <= key_of(h, n).ret.k)
    [] OTHER -> n \in Admissible(h)

\* C37: no sequence of public calls makes the tracker's remove or
\* update_position_of, or the debug assertion of remove_and_heapify, fail,
\* whether the calls kept to their preconditions or not; and on an indexed
\* or mapped heap a public call whose precondition holds does not fail at
\* all, so the tracker's insert is never called for an element it has.
C37_TrackerPreconditions ==
  /\ err \notin TrackerFaults
  /\ (Ok /\ Tracked(Heap)) =>
       /\ pop(Heap).h.err = ""
       /\ pop_node(Heap).h.err = ""
       /\ pop_key(Heap).h.err = ""
       /\ clear(Heap).h.err = ""
       /\ \A n \in NodesOf(kind), k \in Keys :
            /\ Candidate(Heap, n) => push_then_pop(Heap, n, k).h.err = ""
            /\ \A call \in RefinedCalls :
                 PreHolds(call, Heap, n, k) =>
                   Apply(call, Heap, n, k).h.err = ""

\* a mapped heap of one element: the pop gives the element its position
\* and then takes it out of the tracker, which is left empty
C37_Witness ==
  /\ Ok /\ kind = "map" /\ len(Heap) = 1
  /\ pop(Heap).ret = Some(At(tree, offset(D)).n, At(tree, offset(D)).k)
  /\ pop(Heap).h.positions = EmptyMap
  /\ P_update_position_of(Heap, At(tree, offset(D)).n, offset(D)) = Heap

\* C38: a loop that pops until pop returns nothing, entered in any reachable
\* state with n live elements, comes to its end: n pops have returned a
\* pair, the next one has returned None, and is_empty() is true.
C38_DrainTerminates ==
  (dr.pc = "loop") ~>
    (dr.pc = "done" /\ dr.pops = dr.n /\ is_empty(Heap))

\* the loop entered on a heap of MaxLen pairs has ended after as many
\* pops that returned a pair
C38_Witness ==
  /\ dr = [pc |-> "done", n |-> MaxLen, pops |-> MaxLen]
  /\ is_empty(Heap)

\* C39: in every reachable state, failed calls included, the tree is at
\* least offset(D) long, so that len() does not underflow, and the
\* subtraction of parent_of has not overflowed: parent_of is not evaluated
\* at the root slot; and in every state reached without a failure each
\* slot the tracker records lies in offset(D)..(length of the tree - 1).
C39_NoUnderflow ==
  /\ Len(tree) >= offset(D)
  /\ len(Heap) >= 0
  /\ err # Overflow
  /\ (Ok /\ Tracked(Heap)) =>
       \A n \in Admissible(Heap) :
         P_contains(Heap, n) =>
           /\ P_position_of(Heap, n) >= offset(D)
           /\ P_position_of(Heap, n) < Len(tree)

\* a ternary heap (offset 0) of four pairs into which a pair with a key
\* below the least one can be pushed: from slot 4 it is carried to slot 1
\* and to the root at slot 0, where the loop leaves before parent_of; and
\* clear leaves a tree of length offset
C39_Witness ==
  /\ Ok /\ D = 3 /\ len(Heap) = 4
  /\ \E n \in NodesOf(kind), k \in Keys :
       /\ Candidate(Heap, n) /\ k < peek(Heap).k
       /\ push(Heap, n, k).h.err = ""
       /\ At(push(Heap, n, k).h.tree, 0) = [n |-> n, k |-> k]
       /\ At(push(Heap, n, k).h.tree, 4) = At(tree, 1)
  /\ Len(clear(Heap).h.tree) = offset(D)

\* C40: a push that is rejected, for an identifier >= index_bound on the
\* indexed heap or for an element already present on the indexed and mapped
\* heaps, fails in the tracker's insert before the pair is appended: the
\* tree, len() and the tracker are what they were before the call.
C40_FailedPushUnchanged ==
  (Ok /\ Tracked(Heap)) =>
    \A n \in NodesOf(kind), k \in Keys :
      LET r == push(Heap, n, k).h
      IN /\ P_oob(Heap, n) => r.err = "index out of bounds"
         /\ (~P_oob(Heap, n) /\ P_contains(Heap, n)) =>
              r.err = "re-inserting already added node"
         /\ r.err # "" =>
              /\ P_oob(Heap, n) \/ P_contains(Heap, n)
              /\ r.tree = tree
              /\ r.positions = positions
              /\ len(r) = len(Heap)

\* an indexed heap of two elements: the push of one of them and the push
\* of the identifier index_bound are both rejected
C40_Witness ==
  /\ Ok /\ kind = "index" /\ len(Heap) = 2
  /\ push(Heap, At(tree, Len(tree) - 1).n, 1).h.err =
       "re-inserting already added node"
  /\ push(Heap, IndexBound, 1).h.err = "index out of bounds"
  /\ push(Heap, IndexBound, 1).h.tree = tree

====
